---- MODULE Spec2Model ----
(***************************************************************************)
(* A state-machine model of the fuzzer-api job manager                     *)
(* (src/job_manager.py), the part of the persistent store it uses          *)
(* (src/database.py) and the API handlers that drive it (src/main.py).     *)
(*                                                                         *)
(* Two threads run the program: the event-loop thread (the API handlers    *)
(* and the execution tasks they spawn) and the background scheduler        *)
(* thread (job_processor), which has an event loop of its own.  A          *)
(* coroutine of the event-loop thread gives way to another one only at an  *)
(* await; the scheduler thread steps between the synchronous stretches of  *)
(* the event-loop thread, which steps between any two steps of the         *)
(* scheduler thread.                                                       *)
(***************************************************************************)
EXTENDS Integers, Sequences, FiniteSets, TLC

\* ------------------------------------------------------------------ bounds
MaxJobs == 1
MaxReq == 2
MaxRuns == 1
MaxResumes == 1
MaxCrashes == 1
MaxDelay == 1
BudgetJobs == 6
MaxParts == 2       \* pieces (text or placeholder) of a template
MaxSets == 2        \* payload sets of an expansion request
MaxPayloads == 2    \* payloads of a payload set, values of a mutation
MaxRepeat == 2      \* the repeat of a MutationValue
OrderJobs == 2      \* jobs waiting for the scheduler at once

\* ------------------------------------------------------- program constants
MAX_CONCURRENT_JOBS == 5

PENDING == "pending"
RUNNING == "running"
COMPLETED == "completed"
FAILED == "failed"
CANCELLED == "cancelled"

JobStatus == {PENDING, RUNNING, COMPLETED, FAILED, CANCELLED}

\* Python's None for an error message, and the messages the model draws from.
None == "None"
EmptyMsg == ""
NotFoundMsg == "request data not found"
EmptyRunMsg == "generated requests are empty"
ExcMsgs == {EmptyMsg, "boom"}

\* What an exchange leaves in the result's "error": None when a response came,
\* else str(e) of the transport error, which is empty for an exception raised
\* without arguments (asyncio.TimeoutError() of a timed-out request).
RefusedMsg == "connection refused"
TransportErrs == {None, RefusedMsg}
TransportErrsAll == {None, RefusedMsg, EmptyMsg}

\* The status code of a response that came (any code of the target will do).
OkStatus == 200

\* The outcome of the exchange of request k: HTTPClient.send_request returns
\* the response, or status_code 0 and error = str(e); sent is the request the
\* exchange was made for (what actual_request is rebuilt from).
Exchange(k, err) == [sent |-> k, code |-> IF err = None THEN OkStatus ELSE 0, err |-> err]

\* The result built from the k-th request handed over and a response.
Join(k, resp) == [req |-> k, sent |-> resp.sent, code |-> resp.code, err |-> resp.err]

\* Python truthiness of an Optional[str].
Truthy(m) == m # None /\ m # EmptyMsg

VARIABLES
    runs,          \* fuzzer_requests and generated_requests tables: run id -> the
                   \* header's total_requests (0: no header) and the number of rows
    jobs,          \* JobManager._jobs: job id -> in-memory Job
    jobOrder,      \* insertion order of JobManager._jobs
    dbJobs,        \* jobs table
    dbResults,     \* job_results table: job id -> rows in insertion order
    activeJobs,    \* JobManager._active_jobs
    runningTasks,  \* JobManager._running_tasks: job id -> execution context (or NoCtx)
    exec,          \* execution contexts: 0 = the scheduler thread, j = handler task of job j
    sched,         \* the scheduler thread (job_processor)
    lastOp,        \* the resume_job call made by the last step, with what it returned
    nextJob,       \* number of job ids handed out (uuid4 values are fresh)
    attemptDone,   \* history: requests the current attempt of a job has completed
    wasRunningAtCrash, \* history: the job was RUNNING when the process stopped
    restoredAs,    \* history: the status the last restart restored the job with
                   \* (None: no restart since the job was created or resumed)
    cancelSnap,    \* history: cancel_job returned on the job while it was RUNNING,
                   \* with the completed count and the stored rows of that moment
    storeSnap,     \* history: a write of the job's attempt to the store failed,
                   \* with the completed count and the stored rows of that moment
    resumes,       \* history: successful resume_job calls
    crashes,       \* history: process restarts
    fuzz,          \* the POST /api/replace-placeholders call: its request body,
                   \* and its answer once the handler has run
    credentials,   \* the Authorization header the client sends with its requests
    mutex,         \* JobManager._lock: the context that holds it between two steps
                   \* (NoCtx: free; a with-block that a step runs whole leaves it free)
    http           \* one HTTPClient.send_request call: its arguments, and what it
                   \* sent and returned once it has run

vars == <<runs, jobs, jobOrder, dbJobs, dbResults, activeJobs, runningTasks, exec,
          sched, lastOp, nextJob, attemptDone, wasRunningAtCrash, restoredAs, cancelSnap,
          storeSnap, resumes, crashes, fuzz, credentials, mutex, http>>

hvars == <<attemptDone, wasRunningAtCrash, restoredAs, cancelSnap, storeSnap, resumes,
           crashes>>

JobIds == DOMAIN jobs
RunIds == DOMAIN runs
Ctx == DOMAIN exec
SchedCtx == 0
NoCtx == -1

\* --------------------------------------------------------------- records
NoJob == [exists |-> FALSE, status |-> PENDING, total |-> 0, completed |-> 0,
          successful |-> 0, failed |-> 0, results |-> <<>>, error |-> None,
          run |-> 0, seq |-> FALSE, delay |-> 0]

IdleExec == [pc |-> "idle", job |-> 0, n |-> 0, i |-> 0, results |-> <<>>,
             cancelReq |-> FALSE, seq |-> FALSE, delay |-> 0, wait |-> 0,
             exc |-> None, arrived |-> <<>>]

NoOp == [op |-> "none", job |-> 0, ok |-> FALSE, pre |-> None]

NoSnap == [on |-> FALSE, completed |-> 0, rows |-> 0]

NoRun == [total |-> 0, rows |-> 0]

\* What the Authorization header of a request can carry: a bearer token that
\* verify_token accepts and that names an active user, a bearer token that it
\* rejects, or nothing (None: the header is missing).
ValidToken == "valid"
InvalidToken == "invalid"

\* No call of POST /api/replace-placeholders or POST /api/mutations.  pc is
\* "none", "received" (the body of a PlaceholderRequest is parsed, the handler
\* has not run), "received_mutations" (the same for a MutationRequest) or
\* "answered".
NoFuzz == [pc |-> "none", parts |-> <<>>, template |-> <<>>, placeholders |-> <<>>,
           payload_sets |-> <<>>, mutations |-> <<>>, strategy |-> None, code |-> 0,
           requests |-> <<>>]

\* HTTPClient.send_request has not been called.
NoHttp == [pc |-> "none"]

SeqWithout(s, x) == SelectSeq(s, LAMBDA y : y # x)


\* ------------------------------------------------------- persistent store
NoDbJob == [exists |-> FALSE, status |-> PENDING, total |-> 0, completed |-> 0,
            successful |-> 0, failed |-> 0, error |-> None, run |-> 0,
            seq |-> FALSE, delay |-> 0]

\* JobProgress.to_dict: the counters of a job's progress record.
Progress(job) == [total |-> job.total, completed |-> job.completed,
                  successful |-> job.successful, failed |-> job.failed]

\* DatabaseManager.save_job: a new row of the jobs table.
save_job(db, j, status, run, seq, delay, p, error) ==
    [db EXCEPT ![j] = [exists |-> TRUE, status |-> status, total |-> p.total,
                       completed |-> p.completed, successful |-> p.successful,
                       failed |-> p.failed, error |-> error, run |-> run,
                       seq |-> seq, delay |-> delay]]

\* DatabaseManager.update_job: no row, no change; a column is written only when
\* its argument is not None (every caller passes the progress).
update_job(db, j, status, p, error) ==
    IF ~db[j].exists THEN db
    ELSE [db EXCEPT ![j] = [@ EXCEPT
              !.status = IF status # None THEN status ELSE @,
              !.total = p.total, !.completed = p.completed,
              !.successful = p.successful, !.failed = p.failed,
              !.error = IF error # None THEN error ELSE @]]

\* DatabaseManager.save_job_results: one row per result, numbered from 1 by the
\* position in the list handed over, appended to what the table already holds;
\* success is 'not error'.
save_job_results(dbr, j, results) ==
    [dbr EXCEPT ![j] = @ \o [k \in 1..Len(results) |->
                                [num |-> k, req |-> results[k].req, sent |-> results[k].sent,
                                 code |-> results[k].code,
                                 err |-> results[k].err,
                                 success |-> ~Truthy(results[k].err)]]]

RECURSIVE RowsUpTo(_, _)
RowsUpTo(rows, k) ==
    IF k = 0 THEN <<>>
    ELSE RowsUpTo(rows, k - 1) \o SelectSeq(rows, LAMBDA r : r.num = k)

\* DatabaseManager.get_job_results: the job's rows ordered by request_number,
\* each turned back into a result.
get_job_results(dbr, j) ==
    LET sorted == RowsUpTo(dbr[j], Len(dbr[j]))
    IN  [k \in 1..Len(sorted) |-> [req |-> sorted[k].req, sent |-> sorted[k].sent,
                                    code |-> sorted[k].code,
                                    err |-> sorted[k].err]]

\* ------------------------------------------------------------ job manager
\* JobManager.get_job: returns the in-memory job; on the way it replaces the
\* job's result list by the stored rows when there are any.
get_job(js, dbr, j) ==
    IF js[j].exists /\ get_job_results(dbr, j) # <<>>
    THEN [js EXCEPT ![j].results = get_job_results(dbr, j)]
    ELSE js

\* The counts of results without and with an error: 'not error' and 'error',
\* by Python truthiness.
CountOk(results) == Cardinality({k \in 1..Len(results) : ~Truthy(results[k].err)})
CountErr(results) == Cardinality({k \in 1..Len(results) : Truthy(results[k].err)})

\* JobManager.update_job_progress, the in-memory part.
progress_mem(js, j, completed, successful, failed) ==
    IF ~js[j].exists THEN js
    ELSE [js EXCEPT ![j] = [@ EXCEPT !.completed = completed,
                                     !.successful = successful,
                                     !.failed = failed]]

\* JobManager.update_job_progress, the store part (skipped when the job is unknown).
progress_db(db, js, j) ==
    IF ~js[j].exists THEN db ELSE update_job(db, j, None, Progress(js[j]), None)

\* JobManager.complete_job, the in-memory part: FAILED iff the message is truthy.
complete_mem(js, j, results, error) ==
    IF ~js[j].exists THEN js
    ELSE [js EXCEPT ![j] = [@ EXCEPT
              !.status = IF Truthy(error) THEN FAILED ELSE COMPLETED,
              !.results = results,
              !.error = error]]

\* JobManager.complete_job, the store part: the job row ...
complete_db(db, js, j, error) ==
    IF ~js[j].exists THEN db
    ELSE update_job(db, j, js[j].status, Progress(js[j]), error)

\* ... and the result rows, written only for a non-empty result list.
complete_rows(dbr, js, j, results) ==
    IF js[j].exists /\ results # <<>> THEN save_job_results(dbr, j, results) ELSE dbr


\* ------------------------------------------------------------------ Init
\* The state after JobManager() on an empty store: nothing to restore, the
\* scheduler thread started and about to look for PENDING jobs.
InitStore(J) ==
    /\ runs = [r \in 1..MaxRuns |-> NoRun]
    /\ jobs = [j \in J |-> NoJob]
    /\ jobOrder = <<>>
    /\ dbJobs = [j \in J |-> NoDbJob]
    /\ dbResults = [j \in J |-> <<>>]
    /\ activeJobs = 0
    /\ runningTasks = [j \in J |-> NoCtx]
    /\ exec = [c \in {SchedCtx} \cup J |-> IdleExec]
    /\ sched = [pc |-> "sleep", queue |-> <<>>]
    /\ lastOp = NoOp
    /\ nextJob = 0
    /\ attemptDone = [j \in J |-> 0]
    /\ wasRunningAtCrash = [j \in J |-> FALSE]
    /\ restoredAs = [j \in J |-> None]
    /\ cancelSnap = [j \in J |-> NoSnap]
    /\ storeSnap = [j \in J |-> NoSnap]
    /\ resumes = 0
    /\ crashes = 0
    /\ credentials = ValidToken
    /\ mutex = NoCtx

\* No call of the expansion endpoint is under way.
InitOver(J) ==
    /\ InitStore(J)
    /\ fuzz = NoFuzz
    /\ http = NoHttp

Init == InitOver(1..MaxJobs)

\* ------------------------------------------------ the event-loop thread
HandlerCtx == Ctx \ {SchedCtx}

\* Positions at which a coroutine is suspended in an await (or does not run).
YieldPcs == {"idle", "inner", "par_wait", "seq_wait", "seq_sleep", "joined",
             "raised", "cancelled"}

\* Positions at which the inner task (_execute_requests_with_cancellation) is
\* not done, so that Task.cancel() has an effect on it.
InnerPcs == {"inner", "loop", "par_wait", "seq_wait", "seq_sleep"}

\* Every execution task of the event loop is suspended at an await (or has not
\* taken its first step).
LoopYielded == \A d \in HandlerCtx : exec[d].pc \in YieldPcs \cup {"spawned"}

\* The event-loop thread runs one coroutine at a time: context c may take a
\* step only when no other coroutine of that thread is in the middle of a
\* synchronous stretch.  The stretches of the event-loop thread between two
\* awaits are short; the model lets the scheduler thread step between them, not
\* inside them, while the event-loop thread steps between any two steps of
\* the scheduler thread.
MayStep(c) ==
    IF c = SchedCtx THEN LoopYielded
    ELSE \A d \in HandlerCtx \ {c} : exec[d].pc \in YieldPcs \cup {"spawned"}

\* An API handler body runs when every execution task of the event loop is
\* suspended; a handler that names job j was sent after the response to the
\* POST that created j, and so runs after the first step of j's task, which
\* create_task queued before that response.
HandlerMayRun == LoopYielded
HandlerMayRunOn(j) == HandlerMayRun /\ exec[j].pc # "spawned"


\* -------------------------------------------------------------- API handlers
\* The largest id of the fuzzer_requests table (0 when it is empty).  The id
\* column is an INTEGER PRIMARY KEY without AUTOINCREMENT: SQLite gives a new
\* row the largest id in the table plus one.
MaxRunId == IF \A r \in RunIds : runs[r].total = 0 THEN 0
            ELSE CHOOSE r \in RunIds :
                     runs[r].total > 0 /\ \A q \in RunIds : runs[q].total > 0 => q <= r

\* POST /api/replace-placeholders: save_fuzzer_request stores a run of n
\* generated requests (every expansion holds at least the seed row): the
\* header is committed, then the rows are, and neither commit fails.
SaveRun(n) ==
    /\ HandlerMayRun
    /\ MaxRunId < MaxRuns
    /\ runs' = [runs EXCEPT ![MaxRunId + 1] = [total |-> n, rows |-> n]]
    /\ lastOp' = NoOp
    /\ UNCHANGED <<http, mutex, credentials, fuzz, jobs, jobOrder, dbJobs, dbResults, activeJobs, runningTasks, exec,
                   sched, nextJob, hvars>>

\* save_fuzzer_request ending after its first commit: the commit of the rows
\* raises (the handler answers 500), or the process stops between the two.
SaveRunHeaderOnly(n) ==
    /\ HandlerMayRun
    /\ MaxRunId < MaxRuns
    /\ runs' = [runs EXCEPT ![MaxRunId + 1] = [total |-> n, rows |-> 0]]
    /\ lastOp' = NoOp
    /\ UNCHANGED <<http, mutex, credentials, fuzz, jobs, jobOrder, dbJobs, dbResults, activeJobs, runningTasks, exec,
                   sched, nextJob, hvars>>

\* DELETE /api/history/{id}: delete_fuzzer_request removes the run and, by the
\* relationship's cascade, its generated rows; no job is looked at.
DeleteRun(r) ==
    /\ HandlerMayRun
    /\ runs[r].total > 0
    /\ runs' = [runs EXCEPT ![r] = NoRun]
    /\ lastOp' = NoOp
    /\ UNCHANGED <<http, mutex, credentials, fuzz, jobs, jobOrder, dbJobs, dbResults, activeJobs, runningTasks, exec,
                   sched, nextJob, hvars>>

\* ------------------------------------------------------- expansion engine
\* A str is the sequence of its characters.

\* str.find(sub, start) over positions counted from 1: the lowest position at
\* or after start where sub begins, 0 where Python answers -1.
find(s, sub, start) ==
    LET hits == {i \in start..(Len(s) - Len(sub) + 1) :
                     SubSeq(s, i, i + Len(sub) - 1) = sub}
    IN  IF hits = {} THEN 0 ELSE CHOOSE i \in hits : \A k \in hits : i <= k

\* str.count(sub): the occurrences of sub that do not overlap, from the left.
RECURSIVE count(_, _)
count(s, sub) ==
    LET pos == find(s, sub, 1)
    IN  IF pos = 0 THEN 0 ELSE 1 + count(SubSeq(s, pos + Len(sub), Len(s)), sub)

\* str.replace(old, new) for a non-empty old: one pass from the left, the
\* text put in is not looked at again by the same call.
RECURSIVE replace(_, _, _)
replace(s, old, new) ==
    LET pos == find(s, old, 1)
    IN  IF pos = 0 THEN s
        ELSE SubSeq(s, 1, pos - 1) \o new
                 \o replace(SubSeq(s, pos + Len(old), Len(s)), old, new)

\* f"<<{placeholder}>>"
Token(placeholder) == <<"<", "<">> \o placeholder \o <<">", ">">>

\* placeholder_pattern of sniper_attack
placeholder_pattern == Token(<<>>)

\* The while loop of sniper_attack: where occurrence number position of the
\* pattern begins in result (0: the search ran out), each search starting one
\* character after the last hit.
RECURSIVE sniper_find(_, _, _, _)
sniper_find(result, start, current_pos, position) ==
    LET pos == find(result, placeholder_pattern, start)
    IN  IF pos = 0 THEN 0
        ELSE IF current_pos = position THEN pos
        ELSE sniper_find(result, pos + 1, current_pos + 1, position)

\* The body of sniper_attack's inner loop: the request text for one payload at
\* one position.
sniper_request(template, payload, position) ==
    LET pos == sniper_find(template, 1, 0, position)
        result == IF pos = 0 THEN template
                  ELSE SubSeq(template, 1, pos - 1) \o payload
                           \o SubSeq(template, pos + Len(placeholder_pattern),
                                     Len(template))
    IN  replace(result, placeholder_pattern, <<>>)

\* FuzzerEngine.sniper_attack: the requests it returns, or the ValueError.
sniper_attack(template, placeholders, payload_sets) ==
    IF payload_sets = <<>> THEN [error |-> TRUE, requests |-> <<>>]
    ELSE
        LET payloads == payload_sets[1]
            placeholder_count == count(template, placeholder_pattern)
            original == [request |-> replace(template, placeholder_pattern, <<>>),
                         placeholder |-> "original", payload |-> <<>>,
                         position |-> 0]
        IN  [error |-> FALSE,
             requests |-> <<original>> \o
                 [k \in 1..(Len(payloads) * placeholder_count) |->
                     LET payload == payloads[((k - 1) \div placeholder_count) + 1]
                         position == (k - 1) % placeholder_count
                     IN  [request |-> sniper_request(template, payload, position),
                          placeholder |-> placeholder_pattern, payload |-> payload,
                          position |-> position + 1]]]

\* "for placeholder, payload in zip(placeholders, payloads):
\*      result = result.replace(f'<<{placeholder}>>', payload)"
RECURSIVE replace_each(_, _, _)
replace_each(result, placeholders, payloads) ==
    IF placeholders = <<>> \/ payloads = <<>> THEN result
    ELSE replace_each(replace(result, Token(Head(placeholders)), Head(payloads)),
                      Tail(placeholders), Tail(payloads))

\* original_template with the removal of the first declared placeholder only.
original_template_first_only(template, placeholders) ==
    IF placeholders = <<>> THEN template
    ELSE replace(template, Token(Head(placeholders)), <<>>)

\* original_template of the three strategies with named placeholders.
original_template(template, placeholders) ==
    replace_each(template, placeholders, [k \in 1..Len(placeholders) |-> <<>>])

\* FuzzerEngine.battering_ram_attack
battering_ram_attack(template, placeholders, payload_sets) ==
    IF payload_sets = <<>> THEN [error |-> TRUE, requests |-> <<>>]
    ELSE
        LET payloads == payload_sets[1]
            original == [request |-> original_template(template, placeholders),
                         placeholder |-> "original", payload |-> <<>>]
        IN  [error |-> FALSE,
             requests |-> <<original>> \o
                 [i \in 1..Len(payloads) |->
                     [request |-> replace_each(template, placeholders,
                                     [k \in 1..Len(placeholders) |-> payloads[i]]),
                      payload |-> payloads[i]]]]

\* min(len(ps.payloads) for ps in payload_sets), for at least one payload set.
min_payload_count(payload_sets) ==
    CHOOSE n \in {Len(payload_sets[k]) : k \in DOMAIN payload_sets} :
        \A k \in DOMAIN payload_sets : n <= Len(payload_sets[k])

\* FuzzerEngine.pitchfork_attack: min() of no payload set at all raises a
\* ValueError of its own.
pitchfork_attack(template, placeholders, payload_sets) ==
    IF Len(payload_sets) # Len(placeholders) THEN [error |-> TRUE, requests |-> <<>>]
    ELSE IF payload_sets = <<>> THEN [error |-> TRUE, requests |-> <<>>]
    ELSE
        LET original == [request |-> original_template(template, placeholders),
                         placeholder |-> "original", payloads |-> <<>>]
        IN  [error |-> FALSE,
             requests |-> <<original>> \o
                 [i \in 1..min_payload_count(payload_sets) |->
                     LET payloads == [k \in DOMAIN payload_sets |-> payload_sets[k][i]]
                     IN  [request |-> replace_each(template, placeholders, payloads),
                          payloads |-> payloads]]]

\* itertools.product(*pools): "result = [[]]; for pool in pools:
\* result = [x + [y] for x in result for y in pool]".
RECURSIVE product(_, _)
product(result, pools) ==
    IF pools = <<>> THEN result
    ELSE LET pool == Head(pools)
         IN  product([k \in 1..(Len(result) * Len(pool)) |->
                         Append(result[((k - 1) \div Len(pool)) + 1],
                                pool[((k - 1) % Len(pool)) + 1])],
                     Tail(pools))

\* FuzzerEngine.cluster_bomb_attack
cluster_bomb_attack(template, placeholders, payload_sets) ==
    IF Len(payload_sets) # Len(placeholders) THEN [error |-> TRUE, requests |-> <<>>]
    ELSE
        LET original == [request |-> original_template(template, placeholders),
                         placeholder |-> "original", payloads |-> <<>>]
            payload_combinations == product(<< <<>> >>, payload_sets)
        IN  [error |-> FALSE,
             requests |-> <<original>> \o
                 [c \in 1..Len(payload_combinations) |->
                     [request |-> replace_each(template, placeholders,
                                               payload_combinations[c]),
                      payloads |-> payload_combinations[c]]]]

\* "value.value * value.repeat": the text n times over.
RECURSIVE times(_, _)
times(value, n) == IF n <= 0 THEN <<>> ELSE value \o times(value, n - 1)

\* process_mutation_values' step without its "repeat > 0" test: a repeat of 0
\* leaves no text.
process_mutation_value_any_repeat(value) ==
    IF value.kind = "repeat" THEN times(value.value, value.repeat) ELSE value.value

\* A value of a Mutation is a str (kind "str") or a MutationValue, with its
\* repeat (kind "repeat") or without it (kind "value", repeat is None).
\* One step of process_mutation_values' loop: the payload a value stands for.
process_mutation_value(value) ==
    IF value.kind = "str" THEN value.value
    ELSE IF value.kind = "repeat" /\ value.repeat > 0
         THEN times(value.value, value.repeat)
    ELSE value.value

\* process_mutation_values
process_mutation_values(values) ==
    [i \in DOMAIN values |-> process_mutation_value(values[i])]

\* original_template of mutation_attack: every mutation's token removed, one
\* mutation after the other.
RECURSIVE mutation_original(_, _)
mutation_original(original, mutations) ==
    IF mutations = <<>> THEN original
    ELSE mutation_original(replace(original, Head(mutations).token, <<>>),
                           Tail(mutations))

\* The outer loop of mutation_attack: the requests of the mutations, one
\* mutation after the other.
RECURSIVE mutation_requests(_, _)
mutation_requests(template, mutations) ==
    IF mutations = <<>> THEN <<>>
    ELSE LET mutation == Head(mutations)
             payloads == process_mutation_values(mutation.values)
         IN  [i \in DOMAIN payloads |->
                 [request |-> replace(template, mutation.token, payloads[i]),
                  placeholder |-> mutation.token, payload |-> payloads[i],
                  position |-> i]]
             \o mutation_requests(template, Tail(mutations))

\* FuzzerEngine.mutation_attack
mutation_attack(template, mutations) ==
    <<[request |-> mutation_original(template, mutations),
       placeholder |-> "original", payload |-> <<>>, position |-> 0]>>
        \o mutation_requests(template, mutations)

\* AttackStrategy
SNIPER == "sniper"
BATTERING_RAM == "battering_ram"
PITCHFORK == "pitchfork"
CLUSTER_BOMB == "cluster_bomb"
AttackStrategy == {SNIPER, BATTERING_RAM, PITCHFORK, CLUSTER_BOMB}

\* The dispatch of replace_placeholders on request.strategy.
expand(strategy, template, placeholders, payload_sets) ==
    CASE strategy = SNIPER -> sniper_attack(template, placeholders, payload_sets)
      [] strategy = BATTERING_RAM ->
             battering_ram_attack(template, placeholders, payload_sets)
      [] strategy = PITCHFORK -> pitchfork_attack(template, placeholders, payload_sets)
      [] strategy = CLUSTER_BOMB ->
             cluster_bomb_attack(template, placeholders, payload_sets)

\* POST /api/replace-placeholders on the request body received: the strategy
\* expands the template and the run is saved with one row per request, or the
\* strategy's ValueError is answered with 400 and nothing is saved.
ReplacePlaceholders(strategy) ==
    /\ HandlerMayRun
    /\ fuzz.pc = "received"
    /\ MaxRunId < MaxRuns
    /\ LET out == expand(strategy, fuzz.template, fuzz.placeholders, fuzz.payload_sets)
       IN  /\ fuzz' = [fuzz EXCEPT !.pc = "answered", !.strategy = strategy,
                                   !.code = IF out.error THEN 400 ELSE 200,
                                   !.requests = out.requests]
           /\ runs' = IF out.error THEN runs
                      ELSE [runs EXCEPT ![MaxRunId + 1] =
                               [total |-> Len(out.requests),
                                rows |-> Len(out.requests)]]
    /\ lastOp' = NoOp
    /\ UNCHANGED <<http, mutex, credentials, jobs, jobOrder, dbJobs, dbResults, activeJobs,
                   runningTasks, exec, sched, nextJob, hvars>>

\* POST /api/mutations on the request body received: the template is expanded
\* and the run is saved with one row per request.
ApplyMutations ==
    /\ HandlerMayRun
    /\ fuzz.pc = "received_mutations"
    /\ MaxRunId < MaxRuns
    /\ LET requests == mutation_attack(fuzz.template, fuzz.mutations)
       IN  /\ fuzz' = [fuzz EXCEPT !.pc = "answered", !.strategy = "mutation",
                                   !.code = 200, !.requests = requests]
           /\ runs' = [runs EXCEPT ![MaxRunId + 1] =
                          [total |-> Len(requests), rows |-> Len(requests)]]
    /\ lastOp' = NoOp
    /\ UNCHANGED <<http, mutex, credentials, jobs, jobOrder, dbJobs, dbResults, activeJobs,
                   runningTasks, exec, sched, nextJob, hvars>>

\* JobManager.create_job: the new in-memory job.
NewJob(r, total, seq, delay) ==
    [exists |-> TRUE, status |-> PENDING, total |-> total, completed |-> 0,
     successful |-> 0, failed |-> 0, results |-> <<>>, error |-> None,
     run |-> r, seq |-> seq, delay |-> delay]

\* POST /api/execute-requests: 404 without the run; otherwise create_job and
\* asyncio.create_task(execute_requests_job(...)) over the rows read here.
PostExecute(r, seq, delay) ==
    /\ HandlerMayRun
    /\ runs[r].total > 0
    /\ nextJob < Cardinality(JobIds)
    /\ LET j == nextJob + 1
           job == NewJob(r, runs[r].rows, seq, delay)
       IN  /\ jobs' = [jobs EXCEPT ![j] = job]
           /\ jobOrder' = Append(jobOrder, j)
           /\ dbJobs' = save_job(dbJobs, j, PENDING, r, seq, delay, Progress(job), None)
           /\ exec' = [exec EXCEPT ![j] = [IdleExec EXCEPT !.pc = "spawned", !.job = j,
                                             !.n = runs[r].rows, !.seq = seq,
                                             !.delay = delay]]
           /\ nextJob' = j
    /\ lastOp' = NoOp
    /\ UNCHANGED <<http, mutex, credentials, fuzz, runs, dbResults, activeJobs, runningTasks, sched, hvars>>

\* Task.cancel() on the task registered for job j: it takes effect when the
\* inner task of that context is not done.
task_cancel(ex, c, j) ==
    IF c # NoCtx /\ ex[c].job = j /\ ex[c].pc \in InnerPcs
    THEN [ex EXCEPT ![c].cancelReq = TRUE]
    ELSE ex

\* A cancel_job that cancels the job's task and leaves the status as it is.
StopJob_task_only(j) ==
    /\ HandlerMayRunOn(j)
    /\ jobs[j].exists
    /\ exec' = task_cancel(exec, runningTasks[j], j)
    /\ runningTasks' = [runningTasks EXCEPT ![j] = NoCtx]
    /\ lastOp' = NoOp
    /\ UNCHANGED <<http, mutex, credentials, fuzz, runs, jobs, jobOrder, dbJobs, dbResults, activeJobs,
                   sched, nextJob, hvars>>

\* JobManager.cancel_job (POST /api/jobs/{id}/stop, DELETE /api/jobs/{id}).
StopJob(j) ==
    /\ HandlerMayRunOn(j)
    /\ IF ~jobs[j].exists
       THEN UNCHANGED <<jobs, dbJobs, runningTasks, exec, cancelSnap>>
       ELSE /\ exec' = task_cancel(exec, runningTasks[j], j)
            /\ runningTasks' = [runningTasks EXCEPT ![j] = NoCtx]
            /\ jobs' = [jobs EXCEPT ![j].status = CANCELLED]
            /\ dbJobs' = update_job(dbJobs, j, CANCELLED, Progress(jobs[j]), None)
            /\ cancelSnap' = IF jobs[j].status = RUNNING /\ ~cancelSnap[j].on
                             THEN [cancelSnap EXCEPT ![j] =
                                      [on |-> TRUE, completed |-> jobs[j].completed,
                                       rows |-> Len(dbResults[j])]]
                             ELSE cancelSnap
    /\ lastOp' = NoOp
    /\ UNCHANGED <<http, mutex, credentials, fuzz, runs, jobOrder, dbResults, activeJobs, sched, nextJob, attemptDone,
                   wasRunningAtCrash, restoredAs, storeSnap, resumes, crashes>>

\* A resume_job that takes a finished job as well.
resumable_any_end(status) == status \in {CANCELLED, FAILED, COMPLETED}

\* JobManager.resume_job: the statuses a job can be resumed from.
resumable(status) == status \in {CANCELLED, FAILED}

\* JobManager.resume_job (POST /api/jobs/{id}/resume).
ResumeJob(j) ==
    /\ HandlerMayRunOn(j)
    /\ IF ~jobs[j].exists
       THEN /\ lastOp' = [op |-> "resume", job |-> j, ok |-> FALSE, pre |-> None]
            /\ UNCHANGED <<jobs, dbJobs, attemptDone, cancelSnap, storeSnap,
                           wasRunningAtCrash, restoredAs, resumes>>
       ELSE IF ~resumable(jobs[j].status)
       THEN /\ lastOp' = [op |-> "resume", job |-> j, ok |-> FALSE, pre |-> jobs[j].status]
            /\ UNCHANGED <<jobs, dbJobs, attemptDone, cancelSnap, storeSnap,
                           wasRunningAtCrash, restoredAs, resumes>>
       ELSE /\ resumes < MaxResumes
            /\ jobs' = [jobs EXCEPT ![j] = [@ EXCEPT !.status = PENDING, !.error = None,
                                                     !.results = <<>>]]
            /\ dbJobs' = update_job(dbJobs, j, PENDING, Progress(jobs[j]), None)
            /\ attemptDone' = [attemptDone EXCEPT ![j] = 0]
            /\ cancelSnap' = [cancelSnap EXCEPT ![j] = NoSnap]
            /\ storeSnap' = [storeSnap EXCEPT ![j] = NoSnap]
            /\ wasRunningAtCrash' = [wasRunningAtCrash EXCEPT ![j] = FALSE]
            /\ restoredAs' = [restoredAs EXCEPT ![j] = None]
            /\ resumes' = resumes + 1
            /\ lastOp' = [op |-> "resume", job |-> j, ok |-> TRUE, pre |-> jobs[j].status]
    /\ UNCHANGED <<http, mutex, credentials, fuzz, runs, jobOrder, dbResults, activeJobs, runningTasks, exec, sched,
                   nextJob, crashes>>

\* JobManager.delete_job (DELETE /api/jobs/{id}/delete): the in-memory entry only.
DeleteJob(j) ==
    /\ HandlerMayRunOn(j)
    /\ jobs[j].exists
    /\ jobs' = [jobs EXCEPT ![j] = NoJob]
    /\ jobOrder' = SeqWithout(jobOrder, j)
    /\ lastOp' = NoOp
    /\ UNCHANGED <<http, mutex, credentials, fuzz, runs, dbJobs, dbResults, activeJobs, runningTasks, exec, sched,
                   nextJob, hvars>>

\* JobManager.cleanup_old_jobs (POST /api/jobs/cleanup): the in-memory entries
\* of the jobs created before the cutoff go, whatever their status.  Job ids
\* are handed out in the order of creation, so the jobs older than a cutoff
\* are the ids up to some k.
CleanupJobs(k) ==
    /\ HandlerMayRun
    /\ \A j \in JobIds : j <= k => exec[j].pc # "spawned"
    /\ jobs' = [j \in JobIds |-> IF j <= k THEN NoJob ELSE jobs[j]]
    /\ jobOrder' = SelectSeq(jobOrder, LAMBDA j : j > k)
    /\ lastOp' = NoOp
    /\ UNCHANGED <<http, mutex, credentials, fuzz, runs, dbJobs, dbResults, activeJobs, runningTasks,
                   exec, sched, nextJob, hvars>>

\* GET /api/jobs/{id} and the result queries: JobManager.get_job.
GetJob(j) ==
    /\ HandlerMayRunOn(j)
    /\ jobs[j].exists
    /\ jobs' = get_job(jobs, dbResults, j)
    /\ lastOp' = NoOp
    /\ UNCHANGED <<http, mutex, credentials, fuzz, runs, jobOrder, dbJobs, dbResults, activeJobs, runningTasks, exec,
                   sched, nextJob, hvars>>


\* ------------------------------------------------- execute_requests_job
\* What leaving execute_requests_job means for the context: a handler task
\* ends; the scheduler thread is back in _execute_pending_job, whose finally
\* gives the slot back, and goes on with its list of PENDING jobs.
Leave(c) ==
    /\ exec' = [exec EXCEPT ![c] = IdleExec]
    /\ IF c = SchedCtx
       THEN /\ activeJobs' = activeJobs - 1
            /\ sched' = [sched EXCEPT !.pc = "loop"]
       ELSE UNCHANGED <<activeJobs, sched>>

\* execute_requests_job up to the status write: get_job, return when the job is
\* unknown, else status = RUNNING whatever the status was.
ExecStart(c) ==
    /\ MayStep(c)
    /\ exec[c].pc \in {"spawned", "start"}
    /\ LET j == exec[c].job
           js == get_job(jobs, dbResults, j)
       IN  IF ~js[j].exists
           THEN /\ Leave(c)
                /\ UNCHANGED <<jobs, attemptDone>>
           ELSE /\ jobs' = [js EXCEPT ![j].status = RUNNING]
                /\ attemptDone' = [attemptDone EXCEPT ![j] = 0]
                /\ exec' = [exec EXCEPT ![c].pc = "register"]
                /\ UNCHANGED <<activeJobs, sched>>
    /\ lastOp' = NoOp
    /\ UNCHANGED <<http, mutex, credentials, fuzz, runs, jobOrder, dbJobs, dbResults, runningTasks, nextJob,
                   wasRunningAtCrash, restoredAs, cancelSnap, storeSnap, resumes, crashes>>

\* The inner task is created and recorded in _running_tasks; the outer
\* coroutine then awaits it.
ExecRegister(c) ==
    /\ MayStep(c)
    /\ exec[c].pc = "register"
    /\ runningTasks' = [runningTasks EXCEPT ![exec[c].job] = c]
    /\ exec' = [exec EXCEPT ![c].pc = "inner"]
    /\ lastOp' = NoOp
    /\ UNCHANGED <<http, mutex, credentials, fuzz, runs, jobs, jobOrder, dbJobs, dbResults, activeJobs, sched, nextJob,
                   hvars>>

\* First step of the inner task (_execute_requests_with_cancellation): in
\* parallel mode every request is sent at once (RequestExecutor.execute_requests),
\* in sequential mode the loop over the requests begins.
ExecInner(c) ==
    /\ MayStep(c)
    /\ exec[c].pc = "inner"
    /\ exec' = [exec EXCEPT ![c].pc = IF exec[c].cancelReq THEN "cancelled"
                                      ELSE IF exec[c].seq THEN "loop" ELSE "par_wait"]
    /\ lastOp' = NoOp
    /\ UNCHANGED <<http, mutex, credentials, fuzz, runs, jobs, jobOrder, dbJobs, dbResults, activeJobs, runningTasks,
                   sched, nextJob, hvars>>

\* The inner task fails with an exception the executor does not catch (the
\* client session cannot be set up, say); msg is str(e).
ExecRaise(c, msg) ==
    /\ MayStep(c)
    /\ exec[c].pc = "inner"
    /\ ~exec[c].cancelReq
    /\ exec' = [exec EXCEPT ![c].pc = "raised", ![c].exc = msg]
    /\ lastOp' = NoOp
    /\ UNCHANGED <<http, mutex, credentials, fuzz, runs, jobs, jobOrder, dbJobs, dbResults, activeJobs, runningTasks,
                   sched, nextJob, hvars>>

\* except Exception as e: complete_job(job_id, [], str(e)); then the finally.
ExecCatch(c) ==
    /\ MayStep(c)
    /\ exec[c].pc = "raised"
    /\ LET j == exec[c].job
           js == complete_mem(jobs, j, <<>>, exec[c].exc)
       IN  /\ jobs' = js
           /\ dbJobs' = complete_db(dbJobs, js, j, exec[c].exc)
           /\ runningTasks' = [runningTasks EXCEPT ![j] = NoCtx]
    /\ Leave(c)
    /\ lastOp' = NoOp
    /\ UNCHANGED <<http, mutex, credentials, fuzz, runs, jobOrder, dbResults, nextJob, hvars>>

\* Parallel mode, the exchanges and their gather seen as one step (ParRecv for
\* each request, then ParGather): the results are joined to
\* the requests by position, errs[k] being what exchange k left as its error.
ParDone(c, errs) ==
    /\ MayStep(c)
    /\ exec[c].pc = "par_wait"
    /\ IF exec[c].cancelReq
       THEN /\ exec' = [exec EXCEPT ![c].pc = "cancelled"]
            /\ UNCHANGED attemptDone
       ELSE /\ exec' = [exec EXCEPT ![c].pc = "joined",
                                    ![c].results = [k \in 1..exec[c].n |->
                                                       Join(k, Exchange(k, errs[k]))]]
            /\ attemptDone' = [attemptDone EXCEPT ![exec[c].job] = exec[c].n]
    /\ lastOp' = NoOp
    /\ UNCHANGED <<http, mutex, credentials, fuzz, runs, jobs, jobOrder, dbJobs, dbResults, activeJobs, runningTasks,
                   sched, nextJob, wasRunningAtCrash, restoredAs,
                   cancelSnap, storeSnap, resumes, crashes>>

\* A gather that hands the outcomes over in the order they arrived in.
gather_as_completed(arrived, n) == arrived

\* asyncio.gather over the exchanges: the list of the outcomes in the order of
\* the awaitables handed over, whatever the order they arrived in.
gather(arrived, n) ==
    [k \in 1..n |-> arrived[CHOOSE m \in 1..Len(arrived) : arrived[m].sent = k]]

\* Parallel mode, one exchange at a time: the exchange of request k, still
\* outstanding, ends and leaves err.
ParRecv(c, k, err) ==
    /\ MayStep(c)
    /\ exec[c].pc = "par_wait"
    /\ ~exec[c].cancelReq
    /\ k \in 1..exec[c].n
    /\ \A m \in 1..Len(exec[c].arrived) : exec[c].arrived[m].sent # k
    /\ exec' = [exec EXCEPT ![c].arrived = Append(@, Exchange(k, err))]
    /\ lastOp' = NoOp
    /\ UNCHANGED <<http, mutex, credentials, fuzz, runs, jobs, jobOrder, dbJobs, dbResults, activeJobs, runningTasks,
                   sched, nextJob, hvars>>

\* Parallel mode: every exchange has ended and send_multiple_requests returns
\* the gathered list, which execute_requests joins to the requests by position
\* (or the inner task is cancelled at its await).
ParGather(c) ==
    /\ MayStep(c)
    /\ exec[c].pc = "par_wait"
    /\ IF exec[c].cancelReq
       THEN /\ exec' = [exec EXCEPT ![c].pc = "cancelled"]
            /\ UNCHANGED attemptDone
       ELSE /\ Len(exec[c].arrived) = exec[c].n
            /\ LET responses == gather(exec[c].arrived, exec[c].n)
               IN  exec' = [exec EXCEPT ![c].pc = "joined",
                                        ![c].results = [k \in 1..exec[c].n |->
                                                           Join(k, responses[k])]]
            /\ attemptDone' = [attemptDone EXCEPT ![exec[c].job] = exec[c].n]
    /\ lastOp' = NoOp
    /\ UNCHANGED <<http, mutex, credentials, fuzz, runs, jobs, jobOrder, dbJobs, dbResults, activeJobs, runningTasks,
                   sched, nextJob, wasRunningAtCrash, restoredAs,
                   cancelSnap, storeSnap, resumes,
                   crashes>>

\* Sequential mode, top of the loop: the loop ends after the last request; else
\* get_job, break when the job is CANCELLED, else send request i+1.
SeqLoopHead(c) ==
    /\ MayStep(c)
    /\ exec[c].pc = "loop"
    /\ LET j == exec[c].job
           js == get_job(jobs, dbResults, j)
       IN  IF exec[c].cancelReq
           THEN /\ exec' = [exec EXCEPT ![c].pc = "cancelled"]
                /\ UNCHANGED jobs
           ELSE IF exec[c].i = exec[c].n
           THEN /\ exec' = [exec EXCEPT ![c].pc = "joined"]
                /\ UNCHANGED jobs
           ELSE /\ jobs' = js
                /\ exec' = [exec EXCEPT ![c].pc =
                               IF js[j].exists /\ js[j].status = CANCELLED
                               THEN "joined" ELSE "seq_wait"]
    /\ lastOp' = NoOp
    /\ UNCHANGED <<http, mutex, credentials, fuzz, runs, jobOrder, dbJobs, dbResults, activeJobs, runningTasks, sched,
                   nextJob, hvars>>

\* Sequential mode: the exchange of request i+1 ends (err: the error it
\* left); the result is appended and update_job_progress called; then the
\* inter-request delay, when there is one and this was not the last request.
SeqRecv(c, err) ==
    /\ MayStep(c)
    /\ exec[c].pc = "seq_wait"
    /\ IF exec[c].cancelReq
       THEN /\ exec' = [exec EXCEPT ![c].pc = "cancelled"]
            /\ UNCHANGED <<jobs, dbJobs, attemptDone>>
       ELSE LET j == exec[c].job
                i == exec[c].i
                results == Append(exec[c].results, Join(i + 1, Exchange(i + 1, err)))
                js == progress_mem(jobs, j, i + 1, CountOk(results), CountErr(results))
            IN  /\ jobs' = js
                /\ dbJobs' = progress_db(dbJobs, js, j)
                /\ attemptDone' = [attemptDone EXCEPT ![j] = i + 1]
                /\ exec' = [exec EXCEPT ![c].results = results, ![c].i = i + 1,
                               ![c].wait = exec[c].delay,
                               ![c].pc = IF i < exec[c].n - 1 /\ exec[c].delay > 0
                                         THEN "seq_sleep" ELSE "loop"]
    /\ lastOp' = NoOp
    /\ UNCHANGED <<http, mutex, credentials, fuzz, runs, jobOrder, dbResults, activeJobs, runningTasks, sched, nextJob,
                   wasRunningAtCrash, restoredAs, cancelSnap, storeSnap, resumes, crashes>>

\* Sequential mode: one slice (at most a second) of the delay is over; get_job,
\* return the results so far when the job is CANCELLED.
SeqSlice(c) ==
    /\ MayStep(c)
    /\ exec[c].pc = "seq_sleep"
    /\ LET j == exec[c].job
           js == get_job(jobs, dbResults, j)
       IN  IF exec[c].cancelReq
           THEN /\ exec' = [exec EXCEPT ![c].pc = "cancelled"]
                /\ UNCHANGED jobs
           ELSE /\ jobs' = js
                /\ exec' = [exec EXCEPT ![c].wait = @ - 1,
                               ![c].pc = IF js[j].exists /\ js[j].status = CANCELLED
                                         THEN "joined"
                                         ELSE IF exec[c].wait > 1 THEN "seq_sleep"
                                         ELSE "loop"]
    /\ lastOp' = NoOp
    /\ UNCHANGED <<http, mutex, credentials, fuzz, runs, jobOrder, dbJobs, dbResults, activeJobs, runningTasks, sched,
                   nextJob, hvars>>

\* results = await task returned: the counts are taken, update_job_progress and
\* complete_job(job_id, results) called; then the finally removes the job's
\* entry of _running_tasks, whoever wrote it.
ExecFinish(c) ==
    /\ MayStep(c)
    /\ exec[c].pc = "joined"
    /\ LET j == exec[c].job
           results == exec[c].results
           js1 == progress_mem(jobs, j, Len(results), CountOk(results),
                               Len(results) - CountOk(results))
           js2 == complete_mem(js1, j, results, None)
       IN  /\ jobs' = js2
           /\ dbJobs' = complete_db(progress_db(dbJobs, js1, j), js2, j, None)
           /\ dbResults' = complete_rows(dbResults, js2, j, results)
           /\ runningTasks' = [runningTasks EXCEPT ![j] = NoCtx]
    /\ Leave(c)
    /\ lastOp' = NoOp
    /\ UNCHANGED <<http, mutex, credentials, fuzz, runs, jobOrder, nextJob, hvars>>

\* except asyncio.CancelledError: nothing is done to the job; then the finally.
ExecCancelled(c) ==
    /\ MayStep(c)
    /\ exec[c].pc = "cancelled"
    /\ runningTasks' = [runningTasks EXCEPT ![exec[c].job] = NoCtx]
    /\ Leave(c)
    /\ lastOp' = NoOp
    /\ UNCHANGED <<http, mutex, credentials, fuzz, runs, jobs, jobOrder, dbJobs, dbResults, nextJob, hvars>>

\* ----------------------------------------------------- store write failures
\* What a failed write records for job j.
StoreFailed(j) ==
    IF storeSnap[j].on THEN storeSnap
    ELSE [storeSnap EXCEPT ![j] = [on |-> TRUE, completed |-> jobs[j].completed,
                                   rows |-> Len(dbResults[j])]]

\* update_job_progress in the sequential loop with the store write raising: the
\* except clause prints the error; the in-memory counters are already written.
SeqRecvStoreFails(c, err) ==
    /\ MayStep(c)
    /\ exec[c].pc = "seq_wait"
    /\ ~exec[c].cancelReq
    /\ jobs[exec[c].job].exists
    /\ LET j == exec[c].job
           i == exec[c].i
           results == Append(exec[c].results, Join(i + 1, Exchange(i + 1, err)))
       IN  /\ jobs' = progress_mem(jobs, j, i + 1, CountOk(results), CountErr(results))
           /\ attemptDone' = [attemptDone EXCEPT ![j] = i + 1]
           /\ storeSnap' = StoreFailed(j)
           /\ exec' = [exec EXCEPT ![c].results = results, ![c].i = i + 1,
                          ![c].wait = exec[c].delay,
                          ![c].pc = IF i < exec[c].n - 1 /\ exec[c].delay > 0
                                    THEN "seq_sleep" ELSE "loop"]
    /\ lastOp' = NoOp
    /\ UNCHANGED <<http, mutex, credentials, fuzz, runs, jobOrder, dbJobs, dbResults, activeJobs, runningTasks, sched,
                   nextJob, wasRunningAtCrash, restoredAs, cancelSnap, resumes, crashes>>

\* complete_job(job_id, results) with a store write raising: at update_job
\* (rowsOnly false: neither the job row nor a result row is written) or at
\* save_job_results (rowsOnly true: the job row is written, no result row).
\* The except clause prints the error and complete_job returns True; the
\* in-memory job is already written.
ExecFinishStoreFails(c, rowsOnly) ==
    /\ MayStep(c)
    /\ exec[c].pc = "joined"
    /\ jobs[exec[c].job].exists
    /\ rowsOnly => exec[c].results # <<>>
    /\ LET j == exec[c].job
           results == exec[c].results
           js1 == progress_mem(jobs, j, Len(results), CountOk(results),
                               Len(results) - CountOk(results))
           js2 == complete_mem(js1, j, results, None)
       IN  /\ jobs' = js2
           /\ dbJobs' = IF rowsOnly
                        THEN complete_db(progress_db(dbJobs, js1, j), js2, j, None)
                        ELSE progress_db(dbJobs, js1, j)
           /\ storeSnap' = StoreFailed(j)
           /\ runningTasks' = [runningTasks EXCEPT ![j] = NoCtx]
    /\ Leave(c)
    /\ lastOp' = NoOp
    /\ UNCHANGED <<http, mutex, credentials, fuzz, runs, jobOrder, dbResults, nextJob, attemptDone,
                   wasRunningAtCrash, restoredAs,
                   
                   cancelSnap, resumes, crashes>>

\* ------------------------------------------------ the scheduler thread
\* job_processor, top of the while loop: the PENDING jobs of _jobs, in the
\* order of the dictionary.
SchedScan ==
    /\ LoopYielded
    /\ sched.pc = "sleep"
    /\ sched' = [pc |-> "loop",
                 queue |-> SelectSeq(jobOrder, LAMBDA j : jobs[j].status = PENDING)]
    /\ lastOp' = NoOp
    /\ UNCHANGED <<http, mutex, credentials, fuzz, runs, jobs, jobOrder, dbJobs, dbResults, activeJobs, runningTasks,
                   exec, nextJob, hvars>>

\* job_processor, the for loop: the next job of the list is run to its end by
\* run_until_complete(_execute_pending_job(id)) when a slot is free, and skipped
\* otherwise; after the last one the thread sleeps.  _execute_pending_job
\* begins by taking the slot.
SchedPick ==
    /\ LoopYielded
    /\ sched.pc = "loop"
    /\ IF sched.queue = <<>>
       THEN /\ sched' = [sched EXCEPT !.pc = "sleep"]
            /\ UNCHANGED <<activeJobs, exec>>
       ELSE IF activeJobs < MAX_CONCURRENT_JOBS
       THEN /\ sched' = [pc |-> "exec", queue |-> Tail(sched.queue)]
            /\ activeJobs' = activeJobs + 1
            /\ exec' = [exec EXCEPT ![SchedCtx] =
                            [IdleExec EXCEPT !.pc = "ep_check", !.job = Head(sched.queue)]]
       ELSE /\ sched' = [sched EXCEPT !.queue = Tail(sched.queue)]
            /\ UNCHANGED <<activeJobs, exec>>
    /\ lastOp' = NoOp
    /\ UNCHANGED <<http, mutex, credentials, fuzz, runs, jobs, jobOrder, dbJobs, dbResults, runningTasks, nextJob,
                   hvars>>

\* _execute_pending_job: get_job; a job that is unknown or no longer PENDING is
\* left alone.
EpCheck ==
    /\ LoopYielded
    /\ exec[SchedCtx].pc = "ep_check"
    /\ LET j == exec[SchedCtx].job
           js == get_job(jobs, dbResults, j)
       IN  /\ jobs' = js
           /\ IF ~js[j].exists \/ js[j].status # PENDING
              THEN Leave(SchedCtx)
              ELSE /\ exec' = [exec EXCEPT ![SchedCtx] =
                                  [@ EXCEPT !.pc = "ep_load", !.n = js[j].run,
                                            !.seq = js[j].seq, !.delay = js[j].delay]]
                   /\ UNCHANGED <<activeJobs, sched>>
    /\ lastOp' = NoOp
    /\ UNCHANGED <<http, mutex, credentials, fuzz, runs, jobOrder, dbJobs, dbResults, runningTasks, nextJob, hvars>>

\* _execute_pending_job: the run is read from the store by the job's request_id
\* (held in n until here); without it, or without a generated row of it, the
\* job is completed with a message; else the generated rows as they are now
\* are handed to execute_requests_job.
EpLoad ==
    /\ LoopYielded
    /\ exec[SchedCtx].pc = "ep_load"
    /\ LET j == exec[SchedCtx].job
           r == exec[SchedCtx].n
           msg == IF runs[r].total = 0 THEN NotFoundMsg ELSE EmptyRunMsg
       IN  IF runs[r].total = 0 \/ runs[r].rows = 0
           THEN LET js == complete_mem(jobs, j, <<>>, msg)
                IN  /\ jobs' = js
                    /\ dbJobs' = complete_db(dbJobs, js, j, msg)
                    /\ Leave(SchedCtx)
           ELSE /\ exec' = [exec EXCEPT ![SchedCtx] = [@ EXCEPT !.pc = "start",
                                                                !.n = runs[r].rows]]
                /\ UNCHANGED <<jobs, dbJobs, activeJobs, sched>>
    /\ lastOp' = NoOp
    /\ UNCHANGED <<http, mutex, credentials, fuzz, runs, jobOrder, dbResults, runningTasks, nextJob, hvars>>

\* ------------------------------------------------------- stop and restart
RECURSIVE StoredNewestFirst(_, _)
StoredNewestFirst(db, k) ==
    IF k = 0 THEN <<>>
    ELSE (IF db[k].exists THEN <<k>> ELSE <<>>) \o StoredNewestFirst(db, k - 1)

\* A restore that queues every stored job again, whatever its stored status.
RestoredJob_all_pending(row) ==
    IF ~row.exists THEN NoJob
    ELSE [exists |-> TRUE, status |-> PENDING, total |-> row.total,
          completed |-> row.completed, successful |-> row.successful,
          failed |-> row.failed, results |-> <<>>, error |-> row.error,
          run |-> row.run, seq |-> row.seq, delay |-> row.delay]

\* _restore_jobs_from_database: one in-memory job per row, with the row's
\* status, progress and message and an empty result list.
RestoredJob(row) ==
    IF ~row.exists THEN NoJob
    ELSE [exists |-> TRUE, status |-> row.status, total |-> row.total,
          completed |-> row.completed, successful |-> row.successful,
          failed |-> row.failed, results |-> <<>>, error |-> row.error,
          run |-> row.run, seq |-> row.seq, delay |-> row.delay]

\* The process stops at any moment (every task and the scheduler thread with
\* it) and is started again: JobManager.__init__ restores the jobs from the
\* store (get_all_jobs: newest first) and starts the scheduler thread.
Restart ==
    /\ LoopYielded
    /\ crashes < MaxCrashes
    /\ crashes' = crashes + 1
    /\ wasRunningAtCrash' = [j \in JobIds |-> jobs[j].exists /\ jobs[j].status = RUNNING]
    /\ restoredAs' = [j \in JobIds |->
                         IF dbJobs[j].exists THEN dbJobs[j].status ELSE None]
    /\ jobs' = [j \in JobIds |-> RestoredJob(dbJobs[j])]
    /\ jobOrder' = StoredNewestFirst(dbJobs, Cardinality(JobIds))
    /\ activeJobs' = 0
    /\ runningTasks' = [j \in JobIds |-> NoCtx]
    /\ exec' = [c \in Ctx |-> IdleExec]
    /\ sched' = [pc |-> "sleep", queue |-> <<>>]
    /\ lastOp' = NoOp
    /\ UNCHANGED <<http, mutex, credentials, fuzz, runs, dbJobs, dbResults, nextJob, attemptDone, cancelSnap, storeSnap,
                   resumes>>

\* ------------------------------------------------------------------ Next
\* The steps of execute_requests_job, in either thread.
ExecSteps ==
    \/ \E c \in Ctx : ExecStart(c)
    \/ \E c \in Ctx : ExecRegister(c)
    \/ \E c \in Ctx : ExecInner(c)
    \/ \E c \in Ctx : \E errs \in [1..exec[c].n -> TransportErrs] : ParDone(c, errs)
    \/ \E c \in Ctx : SeqLoopHead(c)
    \/ \E c \in Ctx, err \in TransportErrs : SeqRecv(c, err)
    \/ \E c \in Ctx : SeqSlice(c)
    \/ \E c \in Ctx : ExecFinish(c)
    \/ \E c \in Ctx : ExecCancelled(c)

\* The executor failing with an exception of its own.
FaultSteps ==
    \/ \E c \in Ctx, msg \in ExcMsgs : ExecRaise(c, msg)
    \/ \E c \in Ctx : ExecCatch(c)

\* The scheduler thread.
SchedSteps ==
    \/ SchedScan
    \/ SchedPick
    \/ EpCheck
    \/ EpLoad

\* The API calls every specification has: a run is saved, a job started on it,
\* a job stopped, a job resumed.
ApiSteps ==
    \/ \E n \in 1..MaxReq : SaveRun(n)
    \/ \E r \in RunIds, seq \in BOOLEAN :
           \E delay \in (IF seq THEN 0..MaxDelay ELSE {0}) : PostExecute(r, seq, delay)
    \/ \E j \in JobIds : StopJob(j)
    \/ \E j \in JobIds : ResumeJob(j)

\* Spec: the life of a job under the API calls on jobs, with executor failures.
\* Sequential jobs run here without a delay between the requests (the delay
\* and its slices are part of SpecRestart, SpecOrder and SpecSave).
Next ==
    \/ \E n \in 1..MaxReq : SaveRun(n)
    \/ \E r \in RunIds, seq \in BOOLEAN : PostExecute(r, seq, 0)
    \/ \E j \in JobIds : StopJob(j)
    \/ \E j \in JobIds : ResumeJob(j)
    \/ \E j \in JobIds : DeleteJob(j)
    \/ \E j \in JobIds : GetJob(j)
    \/ \E c \in Ctx : ExecStart(c)
    \/ \E c \in Ctx : ExecRegister(c)
    \/ \E c \in Ctx : ExecInner(c)
    \/ \E c \in Ctx : \E errs \in [1..exec[c].n -> TransportErrs] : ParDone(c, errs)
    \/ \E c \in Ctx : SeqLoopHead(c)
    \/ \E c \in Ctx, err \in TransportErrs : SeqRecv(c, err)
    \/ \E c \in Ctx : ExecFinish(c)
    \/ \E c \in Ctx : ExecCancelled(c)
    \/ FaultSteps
    \/ SchedSteps

Spec == Init /\ [][Next]_vars

\* SpecRuns: runs are deleted and saved again while jobs refer to them.
NextRuns ==
    \/ \E n \in 1..MaxReq : SaveRun(n)
    \/ \E r \in RunIds, seq \in BOOLEAN : PostExecute(r, seq, 0)
    \/ \E j \in JobIds : StopJob(j)
    \/ \E j \in JobIds : ResumeJob(j)
    \/ \E r \in RunIds : DeleteRun(r)
    \/ \E c \in Ctx : ExecStart(c)
    \/ \E c \in Ctx : ExecRegister(c)
    \/ \E c \in Ctx : ExecInner(c)
    \/ \E c \in Ctx : \E errs \in [1..exec[c].n -> TransportErrs] : ParDone(c, errs)
    \/ \E c \in Ctx : SeqLoopHead(c)
    \/ \E c \in Ctx, err \in TransportErrs : SeqRecv(c, err)
    \/ \E c \in Ctx : ExecFinish(c)
    \/ \E c \in Ctx : ExecCancelled(c)
    \/ SchedSteps

SpecRuns == Init /\ [][NextRuns]_vars

\* SpecRestart: the process stops and is started again.
NextRestart ==
    \/ ApiSteps
    \/ ExecSteps
    \/ SchedSteps
    \/ Restart

SpecRestart == Init /\ [][NextRestart]_vars

\* SpecRecover: parallel jobs are started, stopped and resumed and the process
\* restarts, with the scheduling the code gives: the scheduler thread loops
\* for as long as the process lives, and a coroutine that can go on is resumed
\* by its event loop (every exchange ends, by its timeout at the latest).
ParallelSteps ==
    \/ \E c \in Ctx : ExecStart(c)
    \/ \E c \in Ctx : ExecRegister(c)
    \/ \E c \in Ctx : ExecInner(c)
    \/ \E c \in Ctx : \E errs \in [1..exec[c].n -> TransportErrs] : ParDone(c, errs)
    \/ \E c \in Ctx : ExecFinish(c)
    \/ \E c \in Ctx : ExecCancelled(c)

NextRecover ==
    \/ \E n \in 1..MaxReq : SaveRun(n)
    \/ \E r \in RunIds : PostExecute(r, FALSE, 0)
    \/ \E j \in JobIds : StopJob(j)
    \/ \E j \in JobIds : ResumeJob(j)
    \/ ParallelSteps
    \/ SchedSteps
    \/ Restart

SpecRecover ==
    Init /\ [][NextRecover]_vars /\ WF_vars(SchedSteps) /\ WF_vars(ParallelSteps)

\* SpecBudget: more jobs than the concurrency budget, each a parallel job over
\* a run of one request, in the window in which no request sent has been
\* answered yet.
InitBudget == InitOver(1..BudgetJobs)

NextBudget ==
    \/ SaveRun(1)
    \/ \E r \in RunIds : PostExecute(r, FALSE, 0)
    \/ \E c \in Ctx : ExecStart(c)
    \/ \E c \in Ctx : ExecRegister(c)
    \/ \E c \in Ctx : ExecInner(c)
    \/ SchedSteps

SpecBudget == InitBudget /\ [][NextBudget]_vars

\* SpecStore: writes to the store fail while a job executes.
StoreFaultSteps ==
    \/ \E c \in Ctx, err \in TransportErrs : SeqRecvStoreFails(c, err)
    \/ \E c \in Ctx, rowsOnly \in BOOLEAN : ExecFinishStoreFails(c, rowsOnly)

NextStore ==
    \/ \E n \in 1..MaxReq : SaveRun(n)
    \/ \E r \in RunIds, seq \in BOOLEAN : PostExecute(r, seq, 0)
    \/ \E j \in JobIds : StopJob(j)
    \/ \E j \in JobIds : ResumeJob(j)
    \/ \E c \in Ctx : ExecStart(c)
    \/ \E c \in Ctx : ExecRegister(c)
    \/ \E c \in Ctx : ExecInner(c)
    \/ \E c \in Ctx : \E errs \in [1..exec[c].n -> TransportErrs] : ParDone(c, errs)
    \/ \E c \in Ctx : SeqLoopHead(c)
    \/ \E c \in Ctx, err \in TransportErrs : SeqRecv(c, err)
    \/ \E c \in Ctx : ExecFinish(c)
    \/ \E c \in Ctx : ExecCancelled(c)
    \/ SchedSteps
    \/ StoreFaultSteps

SpecStore == Init /\ [][NextStore]_vars

\* SpecSave: a save of a run may end after the commit of its header.
NextSave ==
    \/ \E n \in 1..MaxReq : SaveRun(n)
    \/ \E n \in 1..MaxReq : SaveRunHeaderOnly(n)
    \/ \E r \in RunIds : DeleteRun(r)
    \/ \E r \in RunIds, seq \in BOOLEAN :
           \E delay \in (IF seq THEN 0..MaxDelay ELSE {0}) : PostExecute(r, seq, delay)
    \/ \E c \in Ctx : ExecStart(c)
    \/ \E c \in Ctx : ExecRegister(c)
    \/ \E c \in Ctx : ExecInner(c)
    \/ \E c \in Ctx : \E errs \in [1..exec[c].n -> TransportErrs] : ParDone(c, errs)
    \/ \E c \in Ctx : SeqLoopHead(c)
    \/ \E c \in Ctx, err \in TransportErrs : SeqRecv(c, err)
    \/ \E c \in Ctx : SeqSlice(c)
    \/ \E c \in Ctx : ExecFinish(c)
    \/ SchedSteps

SpecSave == Init /\ [][NextSave]_vars

\* SpecOrder: the exchanges of a parallel job end one at a time, in any order.
NextOrder ==
    \/ ApiSteps
    \/ \E j \in JobIds : GetJob(j)
    \/ \E c \in Ctx : ExecStart(c)
    \/ \E c \in Ctx : ExecRegister(c)
    \/ \E c \in Ctx : ExecInner(c)
    \/ \E c \in Ctx, k \in 1..MaxReq, err \in TransportErrs : ParRecv(c, k, err)
    \/ \E c \in Ctx : ParGather(c)
    \/ \E c \in Ctx : SeqLoopHead(c)
    \/ \E c \in Ctx, err \in TransportErrs : SeqRecv(c, err)
    \/ \E c \in Ctx : SeqSlice(c)
    \/ \E c \in Ctx : ExecFinish(c)
    \/ \E c \in Ctx : ExecCancelled(c)
    \/ SchedSteps

SpecOrder == Init /\ [][NextOrder]_vars

\* SpecTransport: jobs run to their end while exchanges fail with transport
\* errors of every kind, the ones without a message included.
NextTransport ==
    \/ \E n \in 1..MaxReq : SaveRun(n)
    \/ \E r \in RunIds, seq \in BOOLEAN :
           \E delay \in (IF seq THEN 0..MaxDelay ELSE {0}) : PostExecute(r, seq, delay)
    \/ \E c \in Ctx : ExecStart(c)
    \/ \E c \in Ctx : ExecRegister(c)
    \/ \E c \in Ctx : ExecInner(c)
    \/ \E c \in Ctx : \E errs \in [1..exec[c].n -> TransportErrsAll] : ParDone(c, errs)
    \/ \E c \in Ctx : SeqLoopHead(c)
    \/ \E c \in Ctx, err \in TransportErrsAll : SeqRecv(c, err)
    \/ \E c \in Ctx : SeqSlice(c)
    \/ \E c \in Ctx : ExecFinish(c)

SpecTransport == Init /\ [][NextTransport]_vars

\* SpecFuzz: the expansion endpoint is called once, on every request body
\* within the bounds.
\* The finite sequences over S of at most n elements.
SeqsUpTo(S, n) == UNION {[1..k -> S] : k \in 0..n}

\* Placeholder names, and a template character that is no part of a placeholder.
Names == {<<"A">>, <<"B">>}
Text == <<"q">>

\* The pieces a template is written from: text, the unnamed placeholder, the
\* named ones.
TemplateParts == {Text} \cup {Token(name) : name \in {<<>>} \cup Names}

\* Payloads: plain text, and text that holds a placeholder.
PayloadTexts == {<<"a">>, <<"b">>, Token(<<>>), <<"a">> \o Token(<<"B">>)}

\* The template a caller writes: its pieces one after the other.
RECURSIVE Flatten(_)
Flatten(parts) == IF parts = <<>> THEN <<>> ELSE Head(parts) \o Flatten(Tail(parts))

\* PlaceholderRequest bodies: placeholder names declared once each.
Requests ==
    {[pc |-> "received", parts |-> parts, template |-> Flatten(parts),
      placeholders |-> placeholders, payload_sets |-> payload_sets,
      mutations |-> <<>>, strategy |-> None, code |-> 0, requests |-> <<>>] :
        parts \in SeqsUpTo(TemplateParts, MaxParts),
        placeholders \in {p \in SeqsUpTo(Names, Cardinality(Names)) :
                             \A a, b \in DOMAIN p : p[a] = p[b] => a = b},
        payload_sets \in SeqsUpTo(SeqsUpTo(PayloadTexts, MaxPayloads), MaxSets)}

InitFuzz ==
    /\ http = NoHttp
    /\ InitStore(1..MaxJobs)
    /\ fuzz \in Requests

NextFuzz ==
    \E strategy \in AttackStrategy : ReplacePlaceholders(strategy)

SpecFuzz == InitFuzz /\ [][NextFuzz]_vars

\* SpecMutation: the mutation endpoint is called once, on every request body
\* within the bounds.
\* The values of a mutation: plain text, text that holds another mutation's
\* token, and MutationValues without a repeat and with repeat 0 and MaxRepeat.
MutationValues ==
    {[kind |-> "str", value |-> <<"a">>, repeat |-> 0],
     [kind |-> "str", value |-> Token(<<"B">>), repeat |-> 0],
     [kind |-> "value", value |-> <<"b">>, repeat |-> 0],
     [kind |-> "repeat", value |-> <<"b">>, repeat |-> 0],
     [kind |-> "repeat", value |-> <<"b">>, repeat |-> MaxRepeat]}

\* Mutation: a token and its values (the strategy label plays no part).
Mutations ==
    {[token |-> Token(name), values |-> values] :
        name \in Names, values \in SeqsUpTo(MutationValues, MaxPayloads)}

\* MutationRequest bodies.
MutationRequests ==
    {[pc |-> "received_mutations", parts |-> parts, template |-> Flatten(parts),
      placeholders |-> <<>>, payload_sets |-> <<>>, mutations |-> mutations,
      strategy |-> None, code |-> 0, requests |-> <<>>] :
        parts \in SeqsUpTo({Text} \cup {Token(name) : name \in Names}, MaxParts),
        mutations \in SeqsUpTo(Mutations, MaxSets)}

InitMutation ==
    /\ http = NoHttp
    /\ InitStore(1..MaxJobs)
    /\ fuzz \in MutationRequests

NextMutation == ApplyMutations

SpecMutation == InitMutation /\ [][NextMutation]_vars

\* SpecEngine: one call of either expansion endpoint, on every request body
\* within the bounds.
InitEngine ==
    /\ http = NoHttp
    /\ InitStore(1..MaxJobs)
    /\ fuzz \in Requests \cup MutationRequests

NextEngine ==
    \/ \E strategy \in AttackStrategy : ReplacePlaceholders(strategy)
    \/ ApplyMutations

SpecEngine == InitEngine /\ [][NextEngine]_vars

\* SpecResume: jobs are started, stopped and resumed and run to their end; no
\* executor fails, so every job that is resumed was CANCELLED.
NextResume ==
    \/ ApiSteps
    \/ ExecSteps
    \/ SchedSteps

SpecResume == Init /\ [][NextResume]_vars

\* ------------------------------------------------------------------ auth
\* The answers of a refused request.  HTTPBearer itself refuses a request
\* without the header, with 403 or (later versions of the framework) 401;
\* get_current_user answers 401 to a token it cannot verify.
Unauthorized == "401"
Forbidden == "403"

\* Depends(get_current_active_user): the handler runs for a verified token of
\* an active user.
get_current_active_user == credentials = ValidToken

\* The client changes what it sends with its requests: it logs in, its token
\* expires, it leaves the header out.
PresentCredentials(c) ==
    /\ c # credentials
    /\ credentials' = c
    /\ UNCHANGED <<http, mutex, fuzz, runs, jobs, jobOrder, dbJobs, dbResults, activeJobs,
                   runningTasks, exec, sched, lastOp, nextJob, hvars>>

\* A request to an endpoint under Depends(get_current_active_user) without a
\* valid token: the dependency raises and the handler body never runs.
Refused ==
    /\ HandlerMayRun
    /\ ~get_current_active_user
    /\ \E code \in IF credentials = None THEN {Unauthorized, Forbidden}
                                            ELSE {Unauthorized} :
           lastOp' = [op |-> "refused", job |-> 0, ok |-> FALSE, pre |-> code]
    /\ UNCHANGED <<http, mutex, credentials, fuzz, runs, jobs, jobOrder, dbJobs, dbResults,
                   activeJobs, runningTasks, exec, sched, nextJob, hvars>>

\* A step of a state-changing endpoint, refused or not, with the dependencies
\* the signatures declare: replace_placeholders and execute_requests take
\* current_user; stop_job, cancel_job, resume_job, delete_job, cleanup_jobs and
\* delete_request take none.
WriteCall ==
    \/ Refused
    \/ get_current_active_user /\ \E n \in 1..MaxReq : SaveRun(n)
    \/ get_current_active_user /\ \E r \in RunIds : PostExecute(r, FALSE, 0)
    \/ \E j \in JobIds : StopJob(j)
    \/ \E j \in JobIds : ResumeJob(j)
    \/ \E j \in JobIds : DeleteJob(j)
    \/ \E k \in 1..MaxJobs : CleanupJobs(k)
    \/ \E r \in RunIds : DeleteRun(r)

\* SpecAuth: a client that holds a valid token, an invalid one or none calls
\* the state-changing endpoints while the parallel jobs it started run.
NextAuth ==
    \/ \E c \in {None, InvalidToken, ValidToken} : PresentCredentials(c)
    \/ WriteCall
    \/ ParallelSteps

SpecAuth == Init /\ [][NextAuth]_vars

\* SpecPending: jobs that fail are resumed, and the client stops a job only
\* while it is PENDING, so that a job here is CANCELLED only by a cancel that
\* found it PENDING.
NextPending ==
    \/ \E n \in 1..MaxReq : SaveRun(n)
    \/ \E r \in RunIds : PostExecute(r, FALSE, 0)
    \/ \E j \in JobIds : jobs[j].exists /\ jobs[j].status = PENDING /\ StopJob(j)
    \/ \E j \in JobIds : ResumeJob(j)
    \/ \E c \in Ctx : ExecStart(c)
    \/ \E c \in Ctx : ExecRegister(c)
    \/ \E c \in Ctx : ExecInner(c)
    \/ \E c \in Ctx : \E errs \in [1..exec[c].n -> TransportErrs] : ParDone(c, errs)
    \/ \E c \in Ctx : ExecFinish(c)
    \/ FaultSteps
    \/ SchedSteps

SpecPending == Init /\ [][NextPending]_vars

\* SpecCreationOrder: several parallel jobs over runs of one request, the
\* process restarting while they wait or run, and the scheduler thread taking
\* up what it finds PENDING.
NextCreationOrder ==
    \/ SaveRun(1)
    \/ \E r \in RunIds : PostExecute(r, FALSE, 0)
    \/ \E c \in Ctx : ExecStart(c)
    \/ \E c \in Ctx : ExecRegister(c)
    \/ \E c \in Ctx : ExecInner(c)
    \/ \E c \in Ctx : ParDone(c, [k \in 1..exec[c].n |-> None])
    \/ \E c \in Ctx : ExecFinish(c)
    \/ SchedSteps
    \/ Restart

SpecCreationOrder == InitOver(1..OrderJobs) /\ [][NextCreationOrder]_vars

\* --------------------------------------------------------- under the lock
\* SeqRecv statement by statement, as another thread sees it: the exchange of
\* request i+1 has ended and the result is appended; update_job_progress takes
\* the lock, assigns completed_requests, successful_requests and
\* failed_requests one after the other and releases the lock; the progress is
\* then written to the store and the loop goes on.
SeqRecvByStatement(c, err) ==
    /\ MayStep(c)
    /\ LET j == exec[c].job
           i == exec[c].i
           results == exec[c].results
       IN  CASE exec[c].pc = "seq_wait" ->
                   /\ mutex = NoCtx
                   /\ IF exec[c].cancelReq
                      THEN /\ exec' = [exec EXCEPT ![c].pc = "cancelled"]
                           /\ UNCHANGED mutex
                      ELSE /\ exec' = [exec EXCEPT
                                          ![c].results = Append(results,
                                                             Join(i + 1, Exchange(i + 1, err))),
                                          ![c].i = i + 1,
                                          ![c].pc = "upd_completed"]
                           /\ mutex' = c
                   /\ UNCHANGED <<jobs, dbJobs, attemptDone>>
             [] exec[c].pc = "upd_completed" ->
                   /\ err = None
                   /\ jobs' = IF jobs[j].exists THEN [jobs EXCEPT ![j].completed = i]
                              ELSE jobs
                   /\ exec' = [exec EXCEPT ![c].pc = "upd_successful"]
                   /\ UNCHANGED <<mutex, dbJobs, attemptDone>>
             [] exec[c].pc = "upd_successful" ->
                   /\ err = None
                   /\ jobs' = IF jobs[j].exists
                              THEN [jobs EXCEPT ![j].successful = CountOk(results)]
                              ELSE jobs
                   /\ exec' = [exec EXCEPT ![c].pc = "upd_failed"]
                   /\ UNCHANGED <<mutex, dbJobs, attemptDone>>
             [] exec[c].pc = "upd_failed" ->
                   /\ err = None
                   /\ LET js == IF jobs[j].exists
                                THEN [jobs EXCEPT ![j].failed = CountErr(results)]
                                ELSE jobs
                      IN  /\ jobs' = js
                          /\ dbJobs' = progress_db(dbJobs, js, j)
                   /\ mutex' = NoCtx
                   /\ attemptDone' = [attemptDone EXCEPT ![j] = i]
                   /\ exec' = [exec EXCEPT ![c].wait = exec[c].delay,
                                  ![c].pc = IF i < exec[c].n /\ exec[c].delay > 0
                                            THEN "seq_sleep" ELSE "loop"]
             [] OTHER -> FALSE
    /\ UNCHANGED <<http, credentials, fuzz, runs, jobOrder, dbResults, activeJobs, runningTasks,
                   sched, lastOp, nextJob, wasRunningAtCrash, restoredAs, cancelSnap,
                   storeSnap, resumes, crashes>>

\* GET /api/jobs/{id}: the handler calls get_job, which takes and releases the
\* lock and hands out the Job object itself; the handler then reads the
\* counters of job.progress from that object (to_dict), without the lock.
ProgressQuery(j) ==
    /\ HandlerMayRunOn(j)
    /\ jobs[j].exists
    /\ IF lastOp.op = "query" /\ lastOp.job = j /\ ~lastOp.ok
       THEN /\ lastOp' = [op |-> "query", job |-> j, ok |-> TRUE, pre |-> None,
                          completed |-> jobs[j].completed,
                          successful |-> jobs[j].successful,
                          failed |-> jobs[j].failed]
            /\ UNCHANGED jobs
       ELSE /\ mutex = NoCtx
            /\ jobs' = get_job(jobs, dbResults, j)
            /\ lastOp' = [op |-> "query", job |-> j, ok |-> FALSE, pre |-> None,
                          completed |-> 0, successful |-> 0, failed |-> 0]
    /\ UNCHANGED <<http, mutex, credentials, fuzz, runs, jobOrder, dbJobs, dbResults, activeJobs,
                   runningTasks, exec, sched, nextJob, hvars>>

\* SpecLock: sequential jobs, the scheduler thread executing the ones it finds
\* PENDING while handlers of the event loop's thread query the progress.  The
\* steps that take the lock wait for it.
NextLock ==
    \/ mutex = NoCtx /\ \E n \in 1..MaxReq : SaveRun(n)
    \/ mutex = NoCtx /\ \E r \in RunIds : PostExecute(r, TRUE, 0)
    \/ mutex = NoCtx /\ \E j \in JobIds : StopJob(j)
    \/ mutex = NoCtx /\ \E j \in JobIds : ResumeJob(j)
    \/ mutex = NoCtx /\ \E c \in Ctx : ExecStart(c)
    \/ mutex = NoCtx /\ \E c \in Ctx : ExecRegister(c)
    \/ mutex = NoCtx /\ \E c \in Ctx : ExecInner(c)
    \/ mutex = NoCtx /\ \E c \in Ctx : SeqLoopHead(c)
    \/ mutex = NoCtx /\ \E c \in HandlerCtx, err \in TransportErrs : SeqRecv(c, err)
    \/ mutex = NoCtx /\ \E c \in Ctx : ExecFinish(c)
    \/ mutex = NoCtx /\ \E c \in Ctx : ExecCancelled(c)
    \/ mutex = NoCtx /\ SchedSteps
    \/ \E err \in TransportErrs : SeqRecvByStatement(SchedCtx, err)
    \/ \E j \in JobIds : ProgressQuery(j)

SpecLock == Init /\ [][NextLock]_vars

\* SpecDelete: jobs are deleted while they wait, run or have ended, and the
\* process restarts.
NextDelete ==
    \/ \E n \in 1..MaxReq : SaveRun(n)
    \/ \E r \in RunIds : PostExecute(r, FALSE, 0)
    \/ \E j \in JobIds : DeleteJob(j)
    \/ \E c \in Ctx : ExecStart(c)
    \/ \E c \in Ctx : ExecRegister(c)
    \/ \E c \in Ctx : ExecInner(c)
    \/ \E c \in Ctx : \E errs \in [1..exec[c].n -> TransportErrs] : ParDone(c, errs)
    \/ \E c \in Ctx : ExecFinish(c)
    \/ SchedSteps
    \/ Restart

SpecDelete == Init /\ [][NextDelete]_vars

\* ------------------------------------------------------------ HTTPClient
\* Text is kept in pieces: a line is a sequence of pieces (strings that hold
\* no line break), a text is what str.split('\n') makes of it, the sequence of
\* its lines, so the empty text is one empty line.  The blank, the tab and the
\* carriage return are pieces of their own: a line that ended in CR LF ends
\* with the piece "\r".
\* str.strip on one line: the white space at both ends goes.
RECURSIVE strip(_)
strip(line) ==
    IF line = <<>> THEN <<>>
    ELSE IF Head(line) \in {" ", "\t", "\r"} THEN strip(Tail(line))
    ELSE IF line[Len(line)] \in {" ", "\t", "\r"}
         THEN strip(SubSeq(line, 1, Len(line) - 1))
    ELSE line

\* urllib.parse.urlparse on a URL in pieces: the scheme up to the first ":",
\* the authority after "//" up to the next "/", "?" or "#", then the path, the
\* query after "?" and the fragment after "#".
urlparse(url) ==
    LET First(s, D) == IF \E i \in DOMAIN s : s[i] \in D
                       THEN CHOOSE i \in DOMAIN s : s[i] \in D /\ \A m \in 1..(i - 1) : s[m] \notin D
                       ELSE Len(s) + 1
        hasScheme == Len(url) >= 2 /\ url[2] = ":" /\ url[1] \in {"http", "https"}
        \* the path, the query and the fragment of what follows the authority
        tail(scheme, netloc, r3, f) ==
            [scheme |-> scheme, netloc |-> netloc,
             path |-> SubSeq(r3, 1, First(SubSeq(r3, 1, f - 1), {"?"}) - 1),
             query |-> SubSeq(r3, First(SubSeq(r3, 1, f - 1), {"?"}) + 1, f - 1),
             fragment |-> SubSeq(r3, f + 1, Len(r3))]
        \* the authority of what follows the scheme
        rest(scheme, r1) ==
            IF r1 # <<>> /\ r1[1] = "//"
            THEN LET n == First(Tail(r1), {"/", "//", "?", "#"})
                 IN  tail(scheme, SubSeq(r1, 2, n),
                          SubSeq(r1, n + 1, Len(r1)),
                          First(SubSeq(r1, n + 1, Len(r1)), {"#"}))
            ELSE tail(scheme, <<>>, r1, First(r1, {"#"}))
    IN  IF hasScheme THEN rest(<<url[1]>>, SubSeq(url, 3, Len(url)))
        ELSE rest(<<>>, url)

\* HTTPClient.parse_http_request: the request line, the headers up to the first
\* blank line, the body after it.  A text without a blank line after the
\* headers leaves body_start at 0, and the body is then every line of the text.
\* The body of a multipart form is cut from the text as it was given, after the
\* first CR LF CR LF or else after the first LF LF, with LF made CR LF.
parse_http_request(request_text) ==
    LET blank(line) == strip(line) = <<>>
        RECURSIVE lstrip(_)
        lstrip(t) == IF t # <<>> /\ blank(Head(t)) THEN lstrip(Tail(t)) ELSE t
        RECURSIVE rstrip(_)
        rstrip(t) == IF t # <<>> /\ blank(t[Len(t)])
                     THEN rstrip(SubSeq(t, 1, Len(t) - 1)) ELSE t
        RECURSIVE ltrim(_)
        ltrim(l) == IF l # <<>> /\ Head(l) \in {" ", "\t", "\r"} THEN ltrim(Tail(l)) ELSE l
        RECURSIVE rtrim(_)
        rtrim(l) == IF l # <<>> /\ l[Len(l)] \in {" ", "\t", "\r"}
                    THEN rtrim(SubSeq(l, 1, Len(l) - 1)) ELSE l
        \* request_text.strip().split('\n')
        ends(inner) == [i \in DOMAIN inner |->
                           IF i = 1 /\ i = Len(inner) THEN rtrim(ltrim(inner[i]))
                           ELSE IF i = 1 THEN ltrim(inner[i])
                           ELSE IF i = Len(inner) THEN rtrim(inner[i])
                           ELSE inner[i]]
        join(t) == IF t = <<>> THEN << <<>> >> ELSE t
        RECURSIVE split(_)
        split(line) ==
            IF \E i \in DOMAIN line : line[i] = " "
            THEN LET i == CHOOSE i \in DOMAIN line :
                              line[i] = " " /\ \A m \in 1..(i - 1) : line[m] # " "
                 IN  <<SubSeq(line, 1, i - 1)>> \o split(SubSeq(line, i + 1, Len(line)))
            ELSE <<line>>
        upper(p) == IF p = "get" THEN "GET" ELSE IF p = "post" THEN "POST"
                    ELSE IF p = "head" THEN "HEAD" ELSE p
        set(h, k, v) == IF \E i \in DOMAIN h : h[i][1] = k
                        THEN [i \in DOMAIN h |-> IF h[i][1] = k THEN <<k, v>> ELSE h[i]]
                        ELSE Append(h, <<k, v>>)
        \* the lines that continue a header's value
        RECURSIVE continued(_, _, _)
        continued(lines, j, value) ==
            IF j <= Len(lines) /\ lines[j] # <<>> /\ lines[j][1] \in {" ", "\t"}
            THEN continued(lines, j + 1, value \o <<" ">> \o strip(lines[j]))
            ELSE [j |-> j, value |-> value]
        header(line, c, more) == <<strip(SubSeq(line, 1, c - 1)), more.value, more.j>>
        \* the header loop: the headers, and body_start (0 when no line is blank)
        RECURSIVE scan(_, _, _)
        scan(lines, i, headers) ==
            IF i > Len(lines) THEN [headers |-> headers, body_start |-> 0]
            ELSE IF strip(lines[i]) = <<>> THEN [headers |-> headers, body_start |-> i]
            ELSE IF \E c \in DOMAIN strip(lines[i]) : strip(lines[i])[c] = ":"
            THEN LET c == CHOOSE c \in DOMAIN strip(lines[i]) :
                              /\ strip(lines[i])[c] = ":"
                              /\ \A m \in 1..(c - 1) : strip(lines[i])[m] # ":"
                     h == header(strip(lines[i]), c,
                                 continued(lines, i + 1,
                                     strip(SubSeq(strip(lines[i]), c + 1,
                                                  Len(strip(lines[i]))))))
                 IN  scan(lines, h[3], set(headers, h[1], h[2]))
            ELSE scan(lines, i + 1, headers)
        crlf(t) == [i \in DOMAIN t |-> IF i < Len(t) THEN Append(t[i], "\r") ELSE t[i]]
        min(S) == CHOOSE k \in S : \A m \in S : k <= m
        multipart(headers) ==
            \E i \in DOMAIN headers :
                /\ headers[i][1] = <<"Content-Type">>
                /\ \E c \in DOMAIN headers[i][2] : headers[i][2][c] = "multipart/form-data"
        \* the body of a multipart form, from the text as it was given
        cut(raw, body_lines) ==
            LET CrLfAt == {k \in 1..(Len(raw) - 2) :
                              /\ raw[k] # <<>> /\ raw[k][Len(raw[k])] = "\r"
                              /\ raw[k + 1] = <<"\r">>}
                LfAt == {k \in 2..(Len(raw) - 1) : raw[k] = <<>>}
            IN  IF CrLfAt # {} THEN SubSeq(raw, min(CrLfAt) + 2, Len(raw))
                ELSE IF LfAt # {} THEN crlf(SubSeq(raw, min(LfAt) + 1, Len(raw)))
                ELSE crlf(join(body_lines))
        body(raw, lines, found) ==
            IF multipart(found.headers)
            THEN cut(raw, SubSeq(lines, found.body_start + 1, Len(lines)))
            ELSE join(SubSeq(lines, found.body_start + 1, Len(lines)))
        answer(raw, lines, parts, found) ==
            IF Len(parts) < 2 THEN [error |-> TRUE]
            ELSE [error |-> FALSE,
                  method |-> [i \in DOMAIN parts[1] |-> upper(parts[1][i])],
                  url |-> parts[2],
                  headers |-> found.headers,
                  body |-> body(raw, lines, found),
                  version |-> IF Len(parts) > 2 THEN parts[3] ELSE <<"HTTP/1.1">>]
        parse(raw, lines) ==
            answer(raw, lines, split(strip(lines[1])), scan(lines, 2, <<>>))
    IN  parse(request_text, join(ends(rstrip(lstrip(request_text)))))

\* HTTPClient.ensure_multipart_body_format: the closing boundary is looked at
\* and logged; every branch returns the body it was given.
ensure_multipart_body_format(body, content_type) ==
    IF "multipart/form-data" \notin {content_type[i] : i \in DOMAIN content_type}
    THEN body
    ELSE IF "boundary=" \notin {content_type[i] : i \in DOMAIN content_type}
    THEN body
    ELSE body

\* HTTPClient.build_actual_request: the request line with the path, query and
\* fragment of the URL, the headers in their order with Content-Length set to
\* the size of the data, an empty line, the data.  No data (None) is <<>>.
build_actual_request(method, url, headers, data) ==
    LET path(u) == u.path \o (IF u.query # <<>> THEN <<"?">> \o u.query ELSE <<>>)
                          \o (IF u.fragment # <<>> THEN <<"#">> \o u.fragment ELSE <<>>)
        RECURSIVE chars(_)
        chars(line) == IF line = <<>> THEN 0 ELSE Len(Head(line)) + chars(Tail(line))
        RECURSIVE size(_)
        size(t) == IF t = <<>> THEN 0
                   ELSE chars(Head(t)) + (IF Len(t) > 1 THEN 1 ELSE 0) + size(Tail(t))
        set(h, k, v) == IF \E i \in DOMAIN h : h[i][1] = k
                        THEN [i \in DOMAIN h |-> IF h[i][1] = k THEN <<k, v>> ELSE h[i]]
                        ELSE Append(h, <<k, v>>)
        request_lines(actual_headers) ==
            <<method \o <<" ">> \o path(urlparse(url)) \o <<" ", "HTTP/1.1">>>>
            \o [i \in DOMAIN actual_headers |->
                   actual_headers[i][1] \o <<":", " ">> \o actual_headers[i][2]]
            \o << <<>> >>
            \o data
    IN  IF data = <<>> THEN request_lines(headers)
        ELSE request_lines(set(headers, <<"Content-Length">>, <<ToString(size(data))>>))

\* HTTPClient.send_request: the URL, the headers and the data of the exchange
\* are made from the parsed text and the configuration, the exchange takes
\* place, and the answer carries the rebuilt request; when the exchange (or the
\* parsing) raises, the except block rebuilds the request from the parsed text
\* alone, or gives a marker when that fails too.
send_request(raised) ==
    /\ http.pc = "scheduled"
    /\ LET get(h, k) == IF \E i \in DOMAIN h : h[i][1] = k
                        THEN h[CHOOSE i \in DOMAIN h : h[i][1] = k][2] ELSE <<>>
           set(h, k, v) == IF \E i \in DOMAIN h : h[i][1] = k
                           THEN [i \in DOMAIN h |-> IF h[i][1] = k THEN <<k, v>> ELSE h[i]]
                           ELSE Append(h, <<k, v>>)
           lower(k) == IF k = <<"Host">> THEN <<"host">>
                       ELSE IF k = <<"Connection">> THEN <<"connection">>
                       ELSE IF k = <<"Content-Length">> THEN <<"content-length">>
                       ELSE k
           in(word, value) == \E i \in DOMAIN value : value[i] = word
           host_header(config, parsed) ==
               IF get(parsed.headers, <<"Host">>) # <<>>
               THEN get(parsed.headers, <<"Host">>) ELSE config.base_url
           qf(u) == u.path \o (IF u.query # <<>> THEN <<"?">> \o u.query ELSE <<>>)
                           \o (IF u.fragment # <<>> THEN <<"#">> \o u.fragment ELSE <<>>)
           path(request_url) ==
               IF /\ Len(request_url) >= 3
                  /\ request_url[1] \in {"http", "https"}
                  /\ request_url[2] = ":" /\ request_url[3] = "//"
               THEN qf(urlparse(request_url))
               ELSE IF request_url # <<>> /\ request_url[1] \in {"/", "//"}
               THEN request_url
               ELSE <<"/">> \o request_url
           RECURSIVE update(_, _)
           update(h, more) ==
               IF more = <<>> THEN h
               ELSE update(IF lower(Head(more)[1]) \in
                                  {<<"host">>, <<"connection">>, <<"content-length">>}
                           THEN h ELSE set(h, Head(more)[1], Head(more)[2]),
                           Tail(more))
           with_host(merged, host) ==
               IF \E i \in DOMAIN merged : merged[i][1] \in {<<"Host">>, <<"host">>}
               THEN merged ELSE set(merged, <<"Host">>, host)
           \* json.dumps(json.loads(body)); a body that is no JSON stays
           dumps(body) ==
               IF /\ Len(body) = 1
                  /\ SelectSeq(body[1], LAMBDA p : p # " ") = <<"{", "\"a\"", ":", "1", "}">>
               THEN << <<"{", "\"a\"", ":", " ", "1", "}">> >>
               ELSE body
           data(parsed, content_type) ==
               IF parsed.body # << <<>> >> /\ parsed.method \notin {<<"GET">>, <<"HEAD">>}
               THEN IF in("multipart/form-data", content_type)
                    THEN ensure_multipart_body_format(parsed.body, content_type)
                    ELSE IF in("application/json", content_type)
                    THEN dumps(parsed.body)
                    ELSE parsed.body
               ELSE <<>>
           answer(sent, url, headers, body, actual_request, error) ==
               [pc |-> "done", request_text |-> http.request_text,
                config |-> http.config, sent |-> sent, url |-> url, headers |-> headers,
                data |-> body, error |-> error, actual_request |-> actual_request]
           exchange(config, parsed, url, headers, body) ==
               IF raised
               THEN answer(TRUE, url, headers, body,
                        build_actual_request(parsed.method,
                            config.scheme \o <<":", "//">> \o config.base_url
                                \o parsed.url,
                            parsed.headers,
                            IF parsed.body # << <<>> >> THEN parsed.body ELSE <<>>),
                        TRUE)
               ELSE answer(TRUE, url, headers, body,
                        build_actual_request(parsed.method, url, headers, body), FALSE)
           prepare(config, parsed, headers) ==
               exchange(config, parsed,
                        config.scheme \o <<":", "//">> \o host_header(config, parsed)
                            \o path(parsed.url),
                        headers,
                        data(parsed, get(headers, <<"Content-Type">>)))
           send(config, parsed) ==
               IF parsed.error
               THEN answer(FALSE, <<>>, <<>>, <<>>, << <<"[", "error", "]">> >>, TRUE)
               ELSE prepare(config, parsed,
                            with_host(update(config.headers, parsed.headers),
                                      host_header(config, parsed)))
       IN  http' = send(http.config, parse_http_request(http.request_text))
    /\ UNCHANGED <<mutex, credentials, fuzz, runs, jobs, jobOrder, dbJobs, dbResults,
                   activeJobs, runningTasks, exec, sched, lastOp, nextJob, hvars>>

\* SpecHttp: send_request is called once, on every request text and
\* configuration within the bounds, and the exchange succeeds or raises.
\* The texts: a method, a relative or an absolute target, with or without a
\* Host header, without a Content-Type or with JSON or a multipart form, and
\* no body, a word, a JSON object, or the parts of a form up to a boundary or
\* up to the closing boundary; and a text of one word.
InitHttp ==
    /\ InitStore(1..MaxJobs)
    /\ fuzz = NoFuzz
    /\ http \in
           LET form == << <<"--", "x">>, <<"Content-Disposition", ":", " ", "form-data">>,
                          <<>>, <<"v">> >>
               texts ==
                   {<<method \o <<" ">> \o target \o <<" ", "HTTP/1.1">>>>
                        \o host \o content_type \o body :
                       method \in {<<"GET">>, <<"post">>},
                       target \in {<<"/", "p">>, <<"p">>,
                                   <<"http", ":", "//", "u.example", "/", "p", "?", "q", "#", "f">>,
                                   <<"https", ":", "//", "u.example">>},
                       host \in {<<>>, << <<"Host", ":", " ", "v.example">> >>},
                       content_type \in
                           {<<>>, << <<"Content-Type", ":", " ", "application/json">> >>,
                            << <<"Content-Type", ":", " ", "multipart/form-data", ";", " ",
                                 "boundary=", "x">> >>},
                       body \in {<<>>, << <<>>, <<"x">> >>,
                                 << <<>>, <<"{", "\"a\"", ":", "1", "}">> >>,
                                 << <<>> >> \o form \o << <<"--", "x">> >>,
                                 << <<>> >> \o form \o << <<"--", "x", "--">> >>}}
                   \cup {<< <<"GET">> >>}
           IN  {[pc |-> "scheduled", request_text |-> text,
                 config |-> [scheme |-> scheme, base_url |-> <<"b.example">>,
                             headers |-> headers]] :
                   text \in texts,
                   scheme \in {<<"http">>, <<"https">>},
                   headers \in {<<>>, << <<<<"X-C">>, <<"2">>>> >>}}

SpecHttp == InitHttp /\ [][\E raised \in BOOLEAN : send_request(raised)]_vars

\* ================================================================ claims
\* C1: every change of a job's status made by an operation of the job manager
\* is an edge of the state diagram, and a job is created PENDING.
C1_StatusChangesFollowDiagram ==
    [][LET edges == {<<PENDING, RUNNING>>, <<PENDING, CANCELLED>>,
                     <<RUNNING, COMPLETED>>, <<RUNNING, FAILED>>,
                     <<RUNNING, CANCELLED>>, <<FAILED, PENDING>>,
                     <<CANCELLED, PENDING>>}
       IN  \A j \in JobIds :
               /\ (jobs[j].exists /\ jobs'[j].exists
                      /\ jobs'[j].status # jobs[j].status)
                      => <<jobs[j].status, jobs'[j].status>> \in edges
               /\ (~jobs[j].exists /\ jobs'[j].exists)
                      => jobs'[j].status = PENDING]_vars

\* C2: for every job, in memory and in the store, completed = successful +
\* failed and completed <= total.
C2_ProgressWithinTotal ==
    \A j \in JobIds :
        /\ jobs[j].exists =>
               /\ jobs[j].completed = jobs[j].successful + jobs[j].failed
               /\ jobs[j].completed <= jobs[j].total
        /\ dbJobs[j].exists =>
               /\ dbJobs[j].completed = dbJobs[j].successful + dbJobs[j].failed
               /\ dbJobs[j].completed <= dbJobs[j].total

\* C3: the request numbers of a job's stored result rows are exactly 1..k for
\* some k <= total, each number once.
C3_OrdinalsOnceEach ==
    \A j \in JobIds :
        LET rows == dbResults[j]
        IN  /\ \A k \in 1..Len(rows) : rows[k].num \in 1..Len(rows)
            /\ \A m \in 1..Len(rows) :
                   Cardinality({k \in 1..Len(rows) : rows[k].num = m}) = 1
            /\ dbJobs[j].exists => Len(rows) <= dbJobs[j].total

\* C4: at no time are more than MAX_CONCURRENT_JOBS jobs RUNNING, whoever
\* started them.
C4_RunningWithinBudget ==
    Cardinality({j \in JobIds : jobs[j].exists /\ jobs[j].status = RUNNING})
        <= MAX_CONCURRENT_JOBS

\* C5: a job that was RUNNING when the process stopped is, after the restart,
\* FAILED with the interrupted message (until it is resumed), and is not
\* executed again on its own.
C5_InterruptedJobsFailed ==
    \A j \in JobIds :
        wasRunningAtCrash[j] =>
            /\ jobs[j].exists
            /\ jobs[j].status = FAILED
            /\ jobs[j].error = "interrupted"
            /\ \A c \in Ctx : exec[c].job # j

\* C6: resume_job succeeds only on a job that is CANCELLED or FAILED; on an
\* unknown job or a job in any other status it returns False and changes
\* neither the jobs in memory nor the store.
C6_ResumeOnlyFromCancelledOrFailed ==
    [][lastOp'.op = "resume" =>
          LET j == lastOp'.job
              from == jobs[j].exists /\ jobs[j].status \in {CANCELLED, FAILED}
          IN  /\ lastOp'.ok => from
              /\ ~from => /\ ~lastOp'.ok
                          /\ jobs' = jobs
                          /\ dbJobs' = dbJobs
                          /\ dbResults' = dbResults]_vars

\* C6, the case: resume_job has just been refused on a COMPLETED job.
C6_RefusedOnCompleted ==
    lastOp.op = "resume" /\ ~lastOp.ok /\ lastOp.pre = COMPLETED

\* C7: when resume_job has succeeded, the job has no error message and no
\* results, as get_job returns it and in the store.
C7_ResumeClearsErrorAndResults ==
    (lastOp.op = "resume" /\ lastOp.ok) =>
        LET j == lastOp.job
        IN  /\ get_job(jobs, dbResults, j)[j].error = None
            /\ get_job(jobs, dbResults, j)[j].results = <<>>
            /\ dbJobs[j].error = None
            /\ dbResults[j] = <<>>

\* C8: once cancel_job has returned on a RUNNING sequential job, the job stays
\* CANCELLED (until it is resumed), its completed count grows by at most one
\* and no further result row is stored.
C8_CancelledSequentialStaysCancelled ==
    \A j \in JobIds :
        (cancelSnap[j].on /\ jobs[j].exists /\ jobs[j].seq) =>
            /\ jobs[j].status = CANCELLED
            /\ jobs[j].completed <= cancelSnap[j].completed + 1
            /\ Len(dbResults[j]) = cancelSnap[j].rows

\* C9: a CANCELLED or FAILED job has, in the store, a result row for every
\* request its attempt completed.
C9_PartialResultsStored ==
    \A j \in JobIds :
        (jobs[j].exists /\ jobs[j].status \in {CANCELLED, FAILED}) =>
            \A k \in 1..attemptDone[j] :
                \E m \in 1..Len(dbResults[j]) : dbResults[j][m].num = k

\* C10: when the executor's exception is caught, or the scheduler finds the
\* job's run missing, the job becomes FAILED with the message stored; it does
\* not become COMPLETED.
C10_ExceptionFailsJob ==
    [][/\ \A c \in Ctx :
             (exec[c].pc = "raised" /\ exec'[c].pc # "raised"
                 /\ jobs[exec[c].job].exists) =>
                 /\ jobs'[exec[c].job].status = FAILED
                 /\ jobs'[exec[c].job].error = exec[c].exc
       /\ (exec[SchedCtx].pc = "ep_load" /\ exec'[SchedCtx].pc # "ep_load"
              /\ runs[exec[SchedCtx].n].total = 0 /\ jobs[exec[SchedCtx].job].exists) =>
              /\ jobs'[exec[SchedCtx].job].status = FAILED
              /\ Truthy(jobs'[exec[SchedCtx].job].error)]_vars

\* C11: when a write of a job's results or status to the store has failed
\* during an attempt and the attempt is over (no coroutine executes the job,
\* and the job was neither cancelled nor resumed), the job is FAILED in memory
\* and in the store, never COMPLETED, and the rows stored before are still
\* there.
C11_StoreFailureFailsJob ==
    \A j \in JobIds :
        (storeSnap[j].on /\ jobs[j].exists /\ (\A c \in Ctx : exec[c].job # j)
            /\ jobs[j].status \notin {CANCELLED, PENDING}) =>
            /\ jobs[j].status = FAILED
            /\ dbJobs[j].status = FAILED
            /\ Len(dbResults[j]) >= storeSnap[j].rows

\* C12: when execute_requests_job finishes a RUNNING job (in either mode),
\* the job is COMPLETED with one result per request; every result of an
\* exchange that ended in a transport error has status_code 0 and a non-empty
\* error, is counted as failed and stored with success false, and every other
\* result is counted as successful and stored with success true.
C12_TransportErrorIsLocal ==
    [][\A c \in Ctx :
          (exec[c].pc = "joined" /\ exec'[c].pc = "idle"
              /\ jobs[exec[c].job].exists /\ jobs[exec[c].job].status = RUNNING) =>
              LET j == exec[c].job
                  res == jobs'[j].results
                  rows == dbResults'[j]
                  errors == {k \in 1..Len(res) : res[k].err # None}
              IN  /\ jobs'[j].status = COMPLETED
                  /\ Len(res) = exec[c].n
                  /\ \A k \in errors : res[k].code = 0 /\ res[k].err # EmptyMsg
                  /\ jobs'[j].failed = Cardinality(errors)
                  /\ jobs'[j].successful = Len(res) - Cardinality(errors)
                  /\ Len(rows) >= Len(res)
                  /\ \A k \in 1..Len(res) :
                         rows[Len(rows) - Len(res) + k].success = (res[k].err = None)]_vars

\* C13: in both modes the k-th result the executor delivers is built from the
\* k-th request handed over and carries the outcome of that request's
\* exchange, whatever the order the exchanges ended in; so is every stored
\* row and its request_number.
C13_ResultsInRequestOrder ==
    /\ \A c \in Ctx : \A k \in 1..Len(exec[c].results) :
           exec[c].results[k].req = k /\ exec[c].results[k].sent = k
    /\ \A c \in Ctx : exec[c].pc = "joined" /\ ~exec[c].seq =>
           Len(exec[c].results) = exec[c].n
    /\ \A j \in JobIds : \A m \in 1..Len(dbResults[j]) :
           dbResults[j][m].req = dbResults[j][m].num
              /\ dbResults[j][m].sent = dbResults[j][m].num

\* C13, the case: a parallel job has gathered two exchanges of which the
\* second request's ended first.
C13_GatheredOutOfOrder ==
    \E c \in Ctx :
        /\ exec[c].pc = "joined" /\ ~exec[c].seq
        /\ Len(exec[c].arrived) = 2
        /\ exec[c].arrived[1].sent = 2

\* C14: a run is deleted only when every job that refers to it, in memory
\* and in the store, is COMPLETED, FAILED or CANCELLED.
C14_DeleteRefusedWhileJobActive ==
    [][\A r \in RunIds :
          (runs[r].total > 0 /\ runs'[r].total = 0) =>
              \A j \in JobIds :
                  /\ (jobs[j].exists /\ jobs[j].run = r) =>
                         jobs[j].status \in {COMPLETED, FAILED, CANCELLED}
                  /\ (dbJobs[j].exists /\ dbJobs[j].run = r) =>
                         dbJobs[j].status \in {COMPLETED, FAILED, CANCELLED}]_vars

\* C15: in every state of the store a run's header is there with all of its
\* generated rows, as many as its total_requests, or neither is there.
C15_RunSavedWhole ==
    \A r \in RunIds : runs[r].rows = runs[r].total

\* C16: the deletion of a run removes its generated rows and every job that
\* refers to it, in memory and in the store, with the job's result rows.
C16_DeleteRemovesJobs ==
    [][\A r \in RunIds :
          (runs[r].total > 0 /\ runs'[r].total = 0) =>
              /\ runs'[r].rows = 0
              /\ \A j \in JobIds :
                     /\ (jobs[j].exists /\ jobs[j].run = r) => ~jobs'[j].exists
                     /\ (dbJobs[j].exists /\ dbJobs[j].run = r) =>
                            ~dbJobs'[j].exists /\ dbResults'[j] = <<>>]_vars

\* C17: Sniper expansion.  For a template with N occurrences of the unnamed
\* placeholder and the payloads S_0 of the first payload set, the answer holds
\* exactly 1 + N*|S_0| requests: the template with every occurrence removed,
\* then for each payload in order and each occurrence in order the template
\* with the payload put at that occurrence and every other occurrence removed.
C17_SniperExpansion ==
    (fuzz.pc = "answered" /\ fuzz.strategy = SNIPER /\ fuzz.payload_sets # <<>>) =>
        LET parts == fuzz.parts
            S0 == fuzz.payload_sets[1]
            Occ == {k \in DOMAIN parts : parts[k] = placeholder_pattern}
            N == Cardinality(Occ)
            Before(k) == Cardinality({m \in Occ : m < k})
            Entry(p, j) == Flatten([k \in DOMAIN parts |->
                               IF k \notin Occ THEN parts[k]
                               ELSE IF Before(k) = j THEN p ELSE <<>>])
            Seed == Flatten([k \in DOMAIN parts |->
                               IF k \in Occ THEN <<>> ELSE parts[k]])
        IN  /\ fuzz.code = 200
            /\ Len(fuzz.requests) = 1 + N * Len(S0)
            /\ fuzz.requests[1].request = Seed
            /\ \A i \in 1..Len(S0), j \in 0..(N - 1) :
                   fuzz.requests[1 + (i - 1) * N + j + 1].request = Entry(S0[i], j)

\* C18: Battering Ram expansion.  With the payloads S_0 of the first payload
\* set the answer holds exactly 1 + |S_0| requests: the seed, then for each
\* payload in order the template with that payload at every occurrence of
\* every declared placeholder; a call without payload sets is an error.
C18_BatteringRamExpansion ==
    (fuzz.pc = "answered" /\ fuzz.strategy = BATTERING_RAM) =>
        IF fuzz.payload_sets = <<>> THEN fuzz.code = 400
        ELSE
            LET parts == fuzz.parts
                S0 == fuzz.payload_sets[1]
                Declared == {Token(fuzz.placeholders[k]) : k \in DOMAIN fuzz.placeholders}
                Entry(p) == Flatten([k \in DOMAIN parts |->
                                IF parts[k] \in Declared THEN p ELSE parts[k]])
            IN  /\ fuzz.code = 200
                /\ Len(fuzz.requests) = 1 + Len(S0)
                /\ fuzz.requests[1].request = Entry(<<>>)
                /\ \A i \in 1..Len(S0) : fuzz.requests[i + 1].request = Entry(S0[i])

\* C19: Pitchfork expansion.  With K declared placeholders the call is an
\* error exactly when the number of payload sets differs from K; otherwise the
\* answer holds exactly 1 + min(|S_0|, .., |S_{K-1}|) requests: the seed, then
\* for i below the minimum the template with every occurrence of placeholder k
\* replaced by the i-th payload of set k.
C19_PitchforkExpansion ==
    (fuzz.pc = "answered" /\ fuzz.strategy = PITCHFORK) =>
        LET parts == fuzz.parts
            K == Len(fuzz.placeholders)
            sets == fuzz.payload_sets
            Sizes == {Len(sets[k]) : k \in DOMAIN sets}
            Min == IF Sizes = {} THEN 0
                   ELSE CHOOSE n \in Sizes : \A m \in Sizes : n <= m
            Entry(fill) == Flatten([p \in DOMAIN parts |->
                               IF \E k \in 1..K : parts[p] = Token(fuzz.placeholders[k])
                               THEN fill[CHOOSE k \in 1..K :
                                             parts[p] = Token(fuzz.placeholders[k])]
                               ELSE parts[p]])
        IN  /\ (fuzz.code = 400) <=> (Len(sets) # K)
            /\ fuzz.code = 200 =>
                   /\ Len(fuzz.requests) = 1 + Min
                   /\ fuzz.requests[1].request = Entry([k \in 1..K |-> <<>>])
                   /\ \A i \in 1..Min :
                          fuzz.requests[i + 1].request = Entry([k \in 1..K |-> sets[k][i]])

\* C20: Cluster Bomb expansion.  A call whose number of payload sets differs
\* from the number K of declared placeholders is an error.  With K payload
\* sets the answer is the seed followed by one request per element of the
\* cross-product of the sets, in lexicographic order with the first
\* placeholder varying slowest, 1 + the product of the set sizes in all; with
\* an empty payload set it is the seed alone.
C20_ClusterBombExpansion ==
    (fuzz.pc = "answered" /\ fuzz.strategy = CLUSTER_BOMB) =>
        LET parts == fuzz.parts
            K == Len(fuzz.placeholders)
            sets == fuzz.payload_sets
            RECURSIVE SizesFrom(_)
            SizesFrom(k) == IF k > Len(sets) THEN 1 ELSE Len(sets[k]) * SizesFrom(k + 1)
            Total == SizesFrom(1)
            Pick(c, k) == sets[k][((c \div SizesFrom(k + 1)) % Len(sets[k])) + 1]
            Entry(fill) == Flatten([p \in DOMAIN parts |->
                               IF \E k \in 1..K : parts[p] = Token(fuzz.placeholders[k])
                               THEN fill[CHOOSE k \in 1..K :
                                             parts[p] = Token(fuzz.placeholders[k])]
                               ELSE parts[p]])
        IN  IF Len(sets) # K THEN fuzz.code = 400
            ELSE /\ fuzz.code = 200
                 /\ Len(fuzz.requests) = 1 + Total
                 /\ (\E k \in 1..K : sets[k] = <<>>) => Len(fuzz.requests) = 1
                 /\ fuzz.requests[1].request = Entry([k \in 1..K |-> <<>>])
                 /\ \A c \in 0..(Total - 1) :
                        fuzz.requests[c + 2].request = Entry([k \in 1..K |-> Pick(c, k)])

\* C21: Mutation expansion.  The answer is the seed followed, for each
\* mutation in order and each of its values in order, by the template with
\* only that mutation's token replaced by the value, 1 + the sum of the value
\* counts in all; a value with a repeat above 0 stands for its text repeated
\* that many times, every other value for its text.
C21_MutationExpansion ==
    (fuzz.pc = "answered" /\ fuzz.strategy = "mutation") =>
        LET parts == fuzz.parts
            muts == fuzz.mutations
            Tokens == {muts[m].token : m \in DOMAIN muts}
            RECURSIVE ValuesBefore(_)
            ValuesBefore(m) == IF m <= 1 THEN 0
                               ELSE Len(muts[m - 1].values) + ValuesBefore(m - 1)
            Stands(v) == IF v.kind = "repeat" /\ v.repeat > 0
                         THEN [c \in 1..(v.repeat * Len(v.value)) |->
                                  v.value[((c - 1) % Len(v.value)) + 1]]
                         ELSE v.value
            Entry(token, text) == Flatten([k \in DOMAIN parts |->
                                      IF parts[k] = token THEN text ELSE parts[k]])
            Seed == Flatten([k \in DOMAIN parts |->
                                IF parts[k] \in Tokens THEN <<>> ELSE parts[k]])
        IN  /\ fuzz.code = 200
            /\ Len(fuzz.requests) = 1 + ValuesBefore(Len(muts) + 1)
            /\ fuzz.requests[1].request = Seed
            /\ \A m \in DOMAIN muts : \A i \in DOMAIN muts[m].values :
                   fuzz.requests[1 + ValuesBefore(m) + i].request
                       = Entry(muts[m].token, Stands(muts[m].values[i]))

\* C21 (witness): the answer to a request with two mutations, the first with a
\* value that holds the second's token, the second with a value repeated
\* MaxRepeat times, on a template that holds both tokens.
C21_TwoMutationsAnswered ==
    /\ fuzz.pc = "answered" /\ fuzz.strategy = "mutation"
    /\ Len(fuzz.mutations) = 2
    /\ fuzz.mutations[1].token = Token(<<"A">>)
    /\ fuzz.mutations[2].token = Token(<<"B">>)
    /\ fuzz.parts = <<Token(<<"A">>), Token(<<"B">>)>>
    /\ \E i \in DOMAIN fuzz.mutations[1].values :
           fuzz.mutations[1].values[i].value = Token(<<"B">>)
    /\ \E i \in DOMAIN fuzz.mutations[2].values :
           /\ fuzz.mutations[2].values[i].kind = "repeat"
           /\ fuzz.mutations[2].values[i].repeat = MaxRepeat
    /\ Len(fuzz.requests) = 5

C23_ResumedJobStoresSameRows ==
    \A j \in JobIds :
        (/\ resumes > 0
         /\ jobs[j].exists /\ jobs[j].status = COMPLETED
         /\ \A c \in Ctx : exec[c].pc = "idle" \/ exec[c].job # j) =>
            LET rows == dbResults[j]
            IN  /\ Len(rows) = jobs[j].total
                /\ \A k \in 1..jobs[j].total :
                       Cardinality({m \in 1..Len(rows) :
                                       rows[m].num = k /\ rows[m].req = k}) = 1

C25_WritesNeedCredentials ==
    [][(~get_current_active_user /\ WriteCall) =>
           /\ lastOp'.pre = Unauthorized
           /\ UNCHANGED <<runs, jobs, jobOrder, dbJobs, dbResults, activeJobs,
                          runningTasks, exec, nextJob>>]_vars

\* C26: once cancel_job has returned on a RUNNING parallel job, whichever
\* context executes it and wherever that execution stands, the job stays
\* CANCELLED (until it is resumed) and no further result row is stored.
C26_CancelledParallelStaysCancelled ==
    \A j \in JobIds :
        (cancelSnap[j].on /\ jobs[j].exists /\ ~jobs[j].seq) =>
            /\ jobs[j].status = CANCELLED
            /\ dbJobs[j].status = CANCELLED
            /\ Len(dbResults[j]) = cancelSnap[j].rows

\* C27: of a sequential job at most one exchange is in flight at a time and
\* the requests are sent in order; a delay follows a request exactly when a
\* delay is configured and the request was not the last; and an execution
\* that is in a delay or at the top of its loop while the job has been
\* cancelled (and neither resumed nor deleted) sends no further request.
C27_SequentialOneAtATime ==
    [][\A j \in JobIds :
          LET Executing == {c \in Ctx : exec[c].pc # "idle" /\ exec[c].job = j /\ exec[c].seq}
          IN  /\ Cardinality({c \in Executing : exec[c].pc = "seq_wait"}) <= 1
              /\ \A c \in Executing :
                     /\ \A k \in 1..Len(exec[c].results) : exec[c].results[k].sent = k
                     /\ (exec[c].pc = "seq_wait" /\ exec'[c].pc \in {"seq_sleep", "loop"}) =>
                            (exec'[c].pc = "seq_sleep" <=>
                                (exec'[c].i < exec[c].n /\ exec[c].delay > 0))
                     /\ (exec[c].pc \in {"seq_sleep", "loop"} /\ cancelSnap[j].on /\ jobs[j].exists) =>
                            exec'[c].pc # "seq_wait"]_vars

\* C28: a job has at most one execution under way at a time: the contexts
\* that are inside execute_requests_job for it, past the RUNNING write and not
\* yet through the finally, are never two (so no request of an attempt is
\* sent twice, and a job that POST /api/execute-requests started is not
\* started by the scheduler thread as well).
C28_OneExecutionPerJob ==
    \A j \in JobIds :
        Cardinality({c \in Ctx : /\ exec[c].job = j
                                 /\ exec[c].pc \notin {"idle", "spawned", "ep_check",
                                                       "ep_load", "start"}}) <= 1

\* C29: a job cancelled while PENDING stays CANCELLED until resume_job makes it
\* PENDING again: no execution writes RUNNING, COMPLETED or FAILED over the
\* CANCELLED, and none sends the job's requests.
C29_CancelledPendingStaysCancelled ==
    [][\A j \in JobIds :
          (jobs[j].exists /\ jobs[j].status = CANCELLED) =>
              /\ jobs'[j].status \in {CANCELLED, PENDING}
              /\ jobs'[j].status = PENDING => (lastOp'.op = "resume" /\ lastOp'.ok)
              /\ \A c \in Ctx : (exec'[c].job = j /\ exec'[c].pc = "par_wait") =>
                                    exec[c].pc = "par_wait"]_vars

\* C30: whenever an operation of the job manager has ended, every job it holds
\* has in the jobs table the status it has in memory, so that a restart at
\* that moment would read the job in that status.
C30_StoredStatusIsCurrent ==
    \A j \in JobIds :
        jobs[j].exists => (dbJobs[j].exists /\ dbJobs[j].status = jobs[j].status)

\* C31: a COMPLETED job has executed every request of its run: its completed
\* count is its total and it holds one result per request.
C31_CompletedIsWhole ==
    \A j \in JobIds :
        (jobs[j].exists /\ jobs[j].status = COMPLETED) =>
            /\ jobs[j].completed = jobs[j].total
            /\ Len(jobs[j].results) = jobs[j].total

\* C32: the PENDING jobs the scheduler thread has listed at a wake-up, which
\* it takes up from the head, stand in the order of their creation (job ids
\* are handed out in that order), also after a restart.
C32_PendingInCreationOrder ==
    \A a, b \in DOMAIN sched.queue : a < b => sched.queue[a] < sched.queue[b]

C34_ProgressQueryConsistent ==
    /\ mutex \notin Ctx
    /\ (lastOp.op = "query" /\ lastOp.ok) =>
           lastOp.completed = lastOp.successful + lastOp.failed

\* C35: no context holds the lock while it waits for an exchange or sleeps
\* between two requests, and the counters of a job's progress are read under
\* the lock: never while another thread holds it.
C35_LockDiscipline ==
    /\ [](\A c \in Ctx :
              exec[c].pc \in {"par_wait", "seq_wait", "seq_sleep"} => mutex # c)
    /\ [][(lastOp'.op = "query" /\ lastOp'.ok /\ lastOp' # lastOp) =>
               mutex = NoCtx]_vars

\* C36: a deleted job is gone for good: a job id that has been handed out and
\* has no entry in the Job table (its entry was deleted) has no entry after
\* any later step either, a restart included.
C36_DeletedStaysDeleted ==
    [][\A j \in JobIds :
          (j <= nextJob /\ ~jobs[j].exists) => ~jobs'[j].exists]_vars

\* C37: payload text is inserted verbatim in every strategy: each request of
\* an answer is the template with every occurrence of a placeholder of the
\* call replaced by one of the payloads of the call as it was given, or
\* removed, and with every other piece of the template as it is; a payload
\* that holds a placeholder token is not stripped or substituted again.
C37_PayloadsVerbatim ==
    (fuzz.pc = "answered" /\ fuzz.code = 200 /\ fuzz.strategy \in AttackStrategy) =>
        LET parts == fuzz.parts
            sets == fuzz.payload_sets
            Declared ==
                IF fuzz.strategy = SNIPER THEN {placeholder_pattern}
                ELSE {Token(fuzz.placeholders[k]) : k \in DOMAIN fuzz.placeholders}
            Chosen == {<<>>} \cup UNION {{sets[k][i] : i \in DOMAIN sets[k]} : k \in DOMAIN sets}
            Filled == {Flatten([k \in DOMAIN parts |->
                                   IF parts[k] \in Declared THEN fill[k] ELSE parts[k]]) :
                          fill \in [DOMAIN parts -> Chosen]}
        IN  \A e \in DOMAIN fuzz.requests : fuzz.requests[e].request \in Filled

\* C38: URL resolution.  For an absolute request target the exchange goes to
\* the host of that URL with the URL's path, query and fragment; for a
\* relative target it goes to the host of the Host header, or to
\* config.base_url when there is none, with the target as the path, prefixed
\* with "/" when it does not start with one; the scheme is config.scheme.
C38_UrlResolution ==
    (http.pc = "done" /\ http.sent) =>
        LET parsed == parse_http_request(http.request_text)
            target == parsed.url
            u == urlparse(target)
            Host == {i \in DOMAIN parsed.headers : parsed.headers[i][1] = <<"Host">>}
            host == IF u.scheme # <<>> THEN u.netloc
                    ELSE IF Host # {} THEN parsed.headers[CHOOSE i \in Host : TRUE][2]
                    ELSE http.config.base_url
            path == IF u.scheme # <<>>
                    THEN u.path \o (IF u.query # <<>> THEN <<"?">> \o u.query ELSE <<>>)
                                \o (IF u.fragment # <<>> THEN <<"#">> \o u.fragment ELSE <<>>)
                    ELSE IF target # <<>> /\ target[1] = "/" THEN target
                    ELSE <<"/">> \o target
        IN  http.url = http.config.scheme \o <<":", "//">> \o host \o path

\* C39: the actual_request stored with a result, parsed again, gives the
\* method, the path, the body and the headers of the scheduled request text
\* (the path as the executor resolves the target; Content-Length, Host and
\* Connection left aside), whatever the method and the content type, whether
\* the exchange succeeded or raised.
C39_ActualRequestRoundTrip ==
    (http.pc = "done" /\ http.sent) =>
        LET kept(h) == {h[i] : i \in {k \in DOMAIN h :
                           h[k][1] \notin {<<"Content-Length">>, <<"Host">>,
                                           <<"Connection">>}}}
            path(target, u) ==
                IF u.scheme # <<>>
                THEN u.path \o (IF u.query # <<>> THEN <<"?">> \o u.query ELSE <<>>)
                            \o (IF u.fragment # <<>> THEN <<"#">> \o u.fragment ELSE <<>>)
                ELSE IF target # <<>> /\ target[1] = "/" THEN target
                ELSE <<"/">> \o target
            same(actual, scheduled) ==
                /\ ~actual.error
                /\ actual.method = scheduled.method
                /\ actual.url = path(scheduled.url, urlparse(scheduled.url))
                /\ actual.body = scheduled.body
                /\ kept(actual.headers) = kept(scheduled.headers)
        IN  same(parse_http_request(http.actual_request),
                 parse_http_request(http.request_text))

\* C40: for a multipart form sent with a body (any method but GET and HEAD),
\* a body that ends with "--" and the boundary goes out with "--" added at its
\* end and is otherwise the body that was parsed; a body that ends with the
\* closing form goes out as it was parsed.
C40_ClosingBoundary ==
    (http.pc = "done" /\ http.sent) =>
        LET ends(line, tail) ==
                /\ Len(line) >= Len(tail)
                /\ SubSeq(line, Len(line) - Len(tail) + 1, Len(line)) = tail
            sent(body, last, boundary) ==
                IF ends(last, <<"--">> \o boundary \o <<"--">>) THEN http.data = body
                ELSE IF ends(last, <<"--">> \o boundary)
                THEN http.data = [body EXCEPT ![Len(body)] = @ \o <<"--">>]
                ELSE TRUE
            form(parsed, content_type) ==
                \A c \in DOMAIN content_type :
                    (/\ content_type[c] = "boundary="
                     /\ \E m \in DOMAIN content_type :
                            content_type[m] = "multipart/form-data"
                     /\ parsed.method \notin {<<"GET">>, <<"HEAD">>}
                     /\ parsed.body # << <<>> >>) =>
                        sent(parsed.body, strip(parsed.body[Len(parsed.body)]),
                             SubSeq(content_type, c + 1, Len(content_type)))
            request(parsed) ==
                \A i \in DOMAIN parsed.headers :
                    parsed.headers[i][1] = <<"Content-Type">> =>
                        form(parsed, parsed.headers[i][2])
        IN  request(parse_http_request(http.request_text))

====
